---- MODULE Spec2Model ----
(***************************************************************************)
(* A/Z pairing, comparison and merge engine of JSON2OPM                    *)
(* (src/json2opm/app_ui.py).                                               *)
(*                                                                         *)
(* Python values are tagged trees:                                         *)
(*   None        [t |-> "null"]                                            *)
(*   str         [t |-> "str",  v |-> sequence of one-character strings]   *)
(*   int/float   [t |-> "num",  v |-> the value in hundredths]             *)
(*   dict        [t |-> "dict", v |-> function from key to value]          *)
(*   list        [t |-> "list", v |-> sequence of values]                  *)
(***************************************************************************)
EXTENDS Integers, Sequences, FiniteSets, TLC

VARIABLES
    k_stem1, k_stem2,   \* key extraction: the two identifiers
    k_res1, k_res2,     \* key extraction: the two (pair_key, side) results
    k_pc,
    m_a, m_z,           \* merge: the objects a_doc and z_doc of the caller
    m_a0, m_z0,         \* merge: their values when _merge_opm_docs was called
    m_out,              \* merge: the returned document
    m_offset,           \* merge: a_max when the shift was applied, else 0
    m_pc,               \* merge: "start", "returned" or "raised"
    b_paths,            \* batch: opm_paths, the file stems in input order
    b_fs,               \* batch: what load_json gives for each file
    b_text,             \* batch: the text of the length-delta setting
    b_merge_var,        \* batch: the merge-enabled toggle
    b_pc, b_i,          \* batch: the phase and the loop index
    b_pairs,            \* batch: pairs, key -> side -> path
    b_keys,             \* batch: sorted(pairs.items()), the keys
    b_thr,              \* batch: length_threshold
    b_acc,              \* batch: stats, error_blocks, eligible_pairs, punch rows
    b_mg,               \* batch: merged, write_errors, messages, output folder
    b_run,              \* batch: 1 in the first run on the inputs, 2 in the second
    b_first,            \* batch: the folder before the first run, what the first
                        \* run returned, and the folder the second run starts on
    p_src,              \* mapper: the source object of the caller
    p_src0,             \* mapper: its value when map_pxm_json_to_opm was called
    p_brief,            \* mapper: _as_dict(src["brief"])
    p_opm,              \* mapper: the dict under construction, keys in insertion order
    p_i,                \* mapper: position of the loop in OPM_FIELD_ORDER
    p_exc,              \* mapper: the exception raised, "" when none
    p_out,              \* mapper: the value returned, None before the return
    p_pc                \* mapper: idle, start, loop, returned, raised

kvars == <<k_stem1, k_stem2, k_res1, k_res2, k_pc>>
mvars == <<m_a, m_z, m_a0, m_z0, m_out, m_offset, m_pc>>
bvars == <<b_paths, b_fs, b_text, b_merge_var, b_pc, b_i, b_pairs, b_keys, b_thr, b_acc, b_mg, b_run, b_first>>
pvars == <<p_src, p_src0, p_brief, p_opm, p_i, p_exc, p_out, p_pc>>
vars == <<kvars, mvars, bvars, pvars>>

----------------------------------------------------------------------------
(* Python values *)

Null == [t |-> "null"]
Str(s) == [t |-> "str", v |-> s]
Num(n) == [t |-> "num", v |-> n]
Dict(f) == [t |-> "dict", v |-> f]
List(s) == [t |-> "list", v |-> s]
EmptyDict == Dict(<<>>)

IsDict(x) == x.t = "dict"
IsList(x) == x.t = "list"
IsStr(x) == x.t = "str"
IsNum(x) == x.t = "num"
IsNone(x) == x.t = "null"

\* d.get(k) for a dict d
Get(d, k) == IF k \in DOMAIN d.v THEN d.v[k] ELSE Null
\* k in d
Has(d, k) == k \in DOMAIN d.v
\* d[k] = x for a dict d (the key is added when absent)
Put(d, k, x) == Dict([kk \in (DOMAIN d.v) \cup {k} |-> IF kk = k THEN x ELSE d.v[kk]])
\* truthiness of a Python value
Truthy(x) ==
    CASE x.t = "null" -> FALSE
      [] x.t = "str" -> Len(x.v) > 0
      [] x.t = "num" -> x.v # 0
      [] x.t = "dict" -> DOMAIN x.v # {}
      [] x.t = "list" -> Len(x.v) > 0

----------------------------------------------------------------------------
(* Strings: decimal digits, str.isdigit(), int(str), str(int) *)

Digits == {"0", "1", "2", "3", "4", "5", "6", "7", "8", "9"}
DigitVal == [c \in Digits |->
    CASE c = "0" -> 0 [] c = "1" -> 1 [] c = "2" -> 2 [] c = "3" -> 3
      [] c = "4" -> 4 [] c = "5" -> 5 [] c = "6" -> 6 [] c = "7" -> 7
      [] c = "8" -> 8 [] c = "9" -> 9]
DigitChar == <<"1", "2", "3", "4", "5", "6", "7", "8", "9">>

\* the character at position i, "" past the end
At(s, i) == IF i >= 1 /\ i <= Len(s) THEN s[i] ELSE ""

\* the substring s[i..j]
Sub(s, i, j) == IF j < i THEN <<>> ELSE SubSeq(s, i, j)

RECURSIVE IntOfChars(_)
IntOfChars(s) ==
    IF s = <<>> THEN 0
    ELSE 10 * IntOfChars(SubSeq(s, 1, Len(s) - 1)) + DigitVal[s[Len(s)]]

RECURSIVE CharsOfInt(_)
CharsOfInt(n) ==
    IF n < 10 THEN <<IF n = 0 THEN "0" ELSE DigitChar[n]>>
    ELSE CharsOfInt(n \div 10) \o <<IF n % 10 = 0 THEN "0" ELSE DigitChar[n % 10]>>

----------------------------------------------------------------------------
(* KeyExtractor: _extract_az_pair_key *)

\* the number of consecutive \d characters of s from position i on
RECURSIVE DigitRun(_, _)
DigitRun(s, i) == IF At(s, i) \in Digits THEN 1 + DigitRun(s, i + 1) ELSE 0

\* the side letters the pattern's class [AZ] accepts (no re.IGNORECASE)
SideClass == {"A", "Z"}

\* re.match(r"^(P\d+)_([AZ])(\d{2})_C(\d{2})(?:_|$)", stem): the groups, or no match
ReMatchStem(stem) ==
    LET n == DigitRun(stem, 2)
        ok == /\ At(stem, 1) = "P"
              /\ n >= 1
              /\ At(stem, 2 + n) = "_"
              /\ At(stem, 3 + n) \in SideClass
              /\ At(stem, 4 + n) \in Digits
              /\ At(stem, 5 + n) \in Digits
              /\ At(stem, 6 + n) = "_"
              /\ At(stem, 7 + n) = "C"
              /\ At(stem, 8 + n) \in Digits
              /\ At(stem, 9 + n) \in Digits
              /\ At(stem, 10 + n) \in {"_", ""}
    IN  IF ok
        THEN [matched |-> TRUE,
              path |-> Sub(stem, 1, 1 + n),
              side |-> Sub(stem, 3 + n, 3 + n),
              trunk |-> Sub(stem, 4 + n, 5 + n),
              conn |-> Sub(stem, 8 + n, 9 + n)]
        ELSE [matched |-> FALSE]

\* the extraction with the side letter left in the key
ExtractAzPairKeyWithSide(stem) ==
    LET m == ReMatchStem(stem)
    IN  IF ~m.matched
        THEN <<Null, Null>>
        ELSE <<Str(m.path \o <<"_">> \o m.side \o m.trunk \o <<"_", "C">> \o m.conn),
               Str(m.side)>>

\* _extract_az_pair_key(stem) = (pair_key, side)
ExtractAzPairKey(stem) ==
    LET m == ReMatchStem(stem)
    IN  IF ~m.matched
        THEN <<Null, Null>>
        ELSE <<Str(m.path \o <<"_">> \o m.trunk \o <<"_", "C">> \o m.conn), Str(m.side)>>

----------------------------------------------------------------------------
(* Object store: Python objects by identity, so that aliasing is visible.  *)
(* A reference is a root object and a path into it; a write through a      *)
(* reference changes the root object it points into.                       *)

Key(k) == [k |-> k, i |-> 0]
Idx(i) == [k |-> "", i |-> i]
Root(r, i) == [r |-> r, i |-> i]
Ref(root, path) == [root |-> root, path |-> path]

RECURSIVE GetPath(_, _)
GetPath(x, path) ==
    IF path = <<>> THEN x
    ELSE LET s == Head(path)
         IN  GetPath(IF s.i = 0 THEN x.v[s.k] ELSE x.v[s.i], Tail(path))

RECURSIVE SetPath(_, _, _)
SetPath(x, path, y) ==
    IF path = <<>> THEN y
    ELSE LET s == Head(path)
         IN  IF s.i = 0
             THEN Dict([x.v EXCEPT ![s.k] = SetPath(x.v[s.k], Tail(path), y)])
             ELSE List([x.v EXCEPT ![s.i] = SetPath(x.v[s.i], Tail(path), y)])

Deref(store, ref) == GetPath(store[ref.root], ref.path)

\* ref[k] = x
SetItem(store, ref, k, x) ==
    [store EXCEPT ![ref.root] = SetPath(@, ref.path, Put(GetPath(@, ref.path), k, x))]

\* copy.deepcopy(ref): a new object new with the value of ref
NoCopy(store, ref, new) == [store |-> store, ref |-> ref]
DeepCopy(store, ref, new) ==
    [store |-> [r \in (DOMAIN store) \cup {new} |->
                    IF r = new THEN Deref(store, ref) ELSE store[r]],
     ref |-> Ref(new, <<>>)]

----------------------------------------------------------------------------
(* DocumentMerger: _merge_opm_docs *)

\* str.isdigit(): non-empty and every character a digit; the superscript
\* digit is a digit for isdigit() and no decimal for int()
SuperDigits == {"^2"}
PyIsDigit(s) == s # <<>> /\ \A i \in 1..Len(s) : s[i] \in Digits \cup SuperDigits
PyIntOk(s) == \A i \in 1..Len(s) : s[i] \in Digits

PathOpmResultData == <<Key("Measurement"), Key("OpmResultData")>>
PathMeasurements == <<Key("Measurement"), Key("OpmResultData"), Key("Measurements")>>

\* doc["Measurement"]["OpmResultData"] can be evaluated and is a dict
HasOpmResultData(doc) ==
    /\ IsDict(doc) /\ Has(doc, "Measurement")
    /\ IsDict(doc.v["Measurement"]) /\ Has(doc.v["Measurement"], "OpmResultData")
    /\ IsDict(doc.v["Measurement"].v["OpmResultData"])

\* doc["Measurement"]["OpmResultData"]["Measurements"] can be evaluated
\* (subscripting a list, a str or None with a str key raises, and so does a
\* missing key)
HasMeasurementsItem(doc) ==
    /\ HasOpmResultData(doc)
    /\ Has(doc.v["Measurement"].v["OpmResultData"], "Measurements")

\* _get_measurements(doc): the list, or [] when it is no list or the lookup raised
GetMeasurements(doc) ==
    IF HasMeasurementsItem(doc) /\ IsList(GetPath(doc, PathMeasurements))
    THEN GetPath(doc, PathMeasurements).v
    ELSE <<>>

\* the loop with a_max = int(name) in place of max(a_max, int(name))
RECURSIVE AMaxLoopLast(_, _, _)
AMaxLoopLast(meas, i, a_max) ==
    IF i > Len(meas) THEN [raised |-> FALSE, a_max |-> a_max]
    ELSE LET m == meas[i]
         IN  IF ~IsDict(m) THEN [raised |-> TRUE, a_max |-> a_max]
             ELSE LET name == Get(m, "Name")
                  IN  IF IsStr(name) /\ PyIsDigit(name.v)
                      THEN IF ~PyIntOk(name.v) THEN [raised |-> TRUE, a_max |-> a_max]
                           ELSE AMaxLoopLast(meas, i + 1, IntOfChars(name.v))
                      ELSE AMaxLoopLast(meas, i + 1, a_max)

\* the loop over a_meas: a_max, or a raise (m.get on a non-dict, int() of a
\* string that isdigit() accepts and int() does not)
RECURSIVE AMaxLoop(_, _, _)
AMaxLoop(meas, i, a_max) ==
    IF i > Len(meas) THEN [raised |-> FALSE, a_max |-> a_max]
    ELSE LET m == meas[i]
         IN  IF ~IsDict(m) THEN [raised |-> TRUE, a_max |-> a_max]
             ELSE LET name == Get(m, "Name")
                  IN  IF IsStr(name) /\ PyIsDigit(name.v)
                      THEN IF ~PyIntOk(name.v) THEN [raised |-> TRUE, a_max |-> a_max]
                           ELSE AMaxLoop(meas, i + 1,
                                    IF IntOfChars(name.v) > a_max
                                    THEN IntOfChars(name.v) ELSE a_max)
                      ELSE AMaxLoop(meas, i + 1, a_max)

DefaultFiberCount == 12

\* if a_max <= 0: a_max = 12
OffsetOfNoDefault(a_max) == a_max
OffsetOf(a_max) == IF a_max <= 0 THEN DefaultFiberCount ELSE a_max

\* the loop leaving out the last measurement of z_meas
RECURSIVE ShiftLoopShort(_, _, _, _, _)
ShiftLoopShort(store, zlen, i, a_max, acc) ==
    IF i >= zlen THEN [raised |-> FALSE, store |-> store, refs |-> acc]
    ELSE LET mref == Ref(Root("z", 0), PathMeasurements \o <<Idx(i)>>)
             cp == DeepCopy(store, mref, Root("mm", i))
         IN  ShiftLoopShort(cp.store, zlen, i + 1, a_max, Append(acc, cp.ref))

\* the loop over z_meas: z_shifted as references, the store after the writes
RECURSIVE ShiftLoop(_, _, _, _, _)
ShiftLoop(store, zlen, i, a_max, acc) ==
    IF i > zlen THEN [raised |-> FALSE, store |-> store, refs |-> acc]
    ELSE LET mref == Ref(Root("z", 0), PathMeasurements \o <<Idx(i)>>)
             cp == DeepCopy(store, mref, Root("mm", i))
             mm == Deref(cp.store, cp.ref)
         IN  IF ~IsDict(mm) THEN [raised |-> TRUE, store |-> cp.store, refs |-> acc]
             ELSE LET name == Get(mm, "Name")
                  IN  IF IsStr(name) /\ PyIsDigit(name.v)
                      THEN IF ~PyIntOk(name.v)
                           THEN [raised |-> TRUE, store |-> cp.store, refs |-> acc]
                           ELSE ShiftLoop(
                                    SetItem(cp.store, cp.ref, "Name",
                                            Str(CharsOfInt(IntOfChars(name.v) + a_max))),
                                    zlen, i + 1, a_max, Append(acc, cp.ref))
                      ELSE ShiftLoop(cp.store, zlen, i + 1, a_max, Append(acc, cp.ref))

\* _verdict(doc): str(GlobalVerdict) under Measurement.OpmResultData, or None
Verdict(doc) ==
    IF HasOpmResultData(doc)
    THEN LET v == Get(GetPath(doc, PathOpmResultData), "GlobalVerdict")
         IN  IF IsNone(v) THEN Null ELSE v
    ELSE Null

Fail == Str(<<"F", "a", "i", "l">>)
Pass == Str(<<"P", "a", "s", "s">>)

\* if (a_v == "Fail") or (z_v == "Fail")
VerdictIsFail(a_v, z_v) == (a_v = Fail) \/ (z_v = Fail)

\* a guard met only when both lists are empty
BothEmpty(a_meas, z_meas) == a_meas = <<>> /\ z_meas = <<>>
\* if not a_meas or not z_meas
EitherEmpty(a_meas, z_meas) == a_meas = <<>> \/ z_meas = <<>>

\* _merge_opm_docs(a_doc, z_doc) on the caller's objects a and z:
\* the store afterwards, the returned object, whether it raised
MergeOpmDocs(a_doc, z_doc) ==
    LET aR == Ref(Root("a", 0), <<>>)
        store0 == [r \in {Root("a", 0), Root("z", 0)} |->
                        IF r = Root("a", 0) THEN a_doc ELSE z_doc]
        cp == DeepCopy(store0, aR, Root("merged", 0))
        merged == cp.ref
        a_meas == GetMeasurements(a_doc)
        z_meas == GetMeasurements(z_doc)
        am == AMaxLoop(a_meas, 1, 0)
        a_max == OffsetOf(am.a_max)
        sh == ShiftLoop(cp.store, Len(z_meas), 1, a_max, <<>>)
        a_refs == [i \in 1..Len(a_meas) |->
                      Ref(Root("a", 0), PathMeasurements \o <<Idx(i)>>)]
        \* list(a_meas) + z_shifted: a new list of the same measurement objects
        newlist == List([i \in 1..(Len(a_meas) + Len(sh.refs)) |->
                      IF i <= Len(a_meas) THEN Deref(sh.store, a_refs[i])
                      ELSE Deref(sh.store, sh.refs[i - Len(a_meas)])])
        canWrite == HasOpmResultData(Deref(sh.store, merged))
        store2 == SetItem(sh.store, Ref(merged.root, merged.path \o PathOpmResultData),
                          "Measurements", newlist)
        store3 == IF VerdictIsFail(Verdict(a_doc), Verdict(z_doc))
                  THEN SetItem(store2, Ref(merged.root, merged.path \o PathOpmResultData),
                               "GlobalVerdict", Fail)
                  ELSE store2
        ret(st, raised, off) ==
            [raised |-> raised, a |-> st[Root("a", 0)], z |-> st[Root("z", 0)],
             out |-> IF raised THEN Null ELSE Deref(st, merged), offset |-> off]
    IN  IF EitherEmpty(a_meas, z_meas) THEN ret(cp.store, FALSE, 0)
        ELSE IF am.raised THEN ret(cp.store, TRUE, 0)
        ELSE IF sh.raised THEN ret(sh.store, TRUE, 0)
        ELSE IF ~canWrite THEN ret(sh.store, FALSE, 0)
        ELSE ret(store3, FALSE, a_max)

----------------------------------------------------------------------------
(* FieldAccessor *)

\* an exception, with the text str(e)
Raised(e) == [raised |-> TRUE, err |-> e]
Returned(x) == [raised |-> FALSE, val |-> x]

\* _get_opm_root(doc)
GetOpmRoot(doc) ==
    IF ~IsDict(doc) THEN EmptyDict
    ELSE LET m == Get(doc, "Measurement")
         IN  IF IsDict(m) /\ IsDict(Get(m, "OpmResultData"))
             THEN Get(m, "OpmResultData")
             ELSE doc

\* str.strip(), str.replace(" ", "_"), and the loop replacing "__" by "_"
Whitespace == {" ", "\t"}
RECURSIVE LStrip(_)
LStrip(s) == IF s # <<>> /\ Head(s) \in Whitespace THEN LStrip(Tail(s)) ELSE s
RECURSIVE RStrip(_)
RStrip(s) ==
    IF s # <<>> /\ s[Len(s)] \in Whitespace THEN RStrip(SubSeq(s, 1, Len(s) - 1)) ELSE s
Strip(s) == RStrip(LStrip(s))
ReplaceSpaces(s) == [i \in 1..Len(s) |-> IF s[i] = " " THEN "_" ELSE s[i]]
HasDouble(s) == \E i \in 1..(Len(s) - 1) : s[i] = "_" /\ s[i + 1] = "_"
RECURSIVE ReplaceDouble(_)
ReplaceDouble(s) ==
    IF Len(s) < 2 THEN s
    ELSE IF s[1] = "_" /\ s[2] = "_" THEN <<"_">> \o ReplaceDouble(SubSeq(s, 3, Len(s)))
    ELSE <<s[1]>> \o ReplaceDouble(Tail(s))
RECURSIVE CollapseLoop(_)
CollapseLoop(s) == IF HasDouble(s) THEN CollapseLoop(ReplaceDouble(s)) ELSE s

\* str(x) of a str or of None, the values the documents hold in these fields
PyStr(x) == IF IsStr(x) THEN x.v ELSE <<"N", "o", "n", "e">>

\* _normalize_polarity(pol)
NormalizePolarity(pol) == Str(CollapseLoop(ReplaceSpaces(Strip(PyStr(pol)))))

\* _get_expected_polarity(doc), _get_actual_polarity(doc)
PolarityOf(doc, which) ==
    LET con == Get(GetOpmRoot(doc), "Connectors")
    IN  IF ~IsDict(con) THEN Null
        ELSE LET c == Get(con, which)
             IN  IF ~IsDict(c) THEN Null
                 ELSE IF Truthy(Get(c, "PolarityType"))
                      THEN NormalizePolarity(Get(c, "PolarityType"))
                      ELSE Null
GetExpectedPolarity(doc) == PolarityOf(doc, "ExpectedConnectors")
GetActualPolarity(doc) == PolarityOf(doc, "ActualConnectors")

\* _get_polarity_status(doc)
GetPolarityStatus(doc) ==
    IF ~IsDict(doc) THEN Null
    ELSE LET con == Get(GetOpmRoot(doc), "Connectors")
         IN  IF IsDict(con) /\ ~IsNone(Get(con, "PolarityStatus"))
             THEN Str(PyStr(Get(con, "PolarityStatus")))
             ELSE Null

\* int(w) of a number: truncation toward zero (numbers are in hundredths)
PyInt(n) == IF n >= 0 THEN n \div 100 ELSE -((-n) \div 100)

\* sorted(out) of a set of integers
RECURSIVE SortedSeq(_)
SortedSeq(S) ==
    IF S = {} THEN <<>>
    ELSE LET lo == CHOOSE x \in S : \A y \in S : x <= y
         IN  <<lo>> \o SortedSeq(S \ {lo})

\* the wavelengths as the list of the int() of every numeric entry, in document order
WavelengthSeqOf(rows) ==
    LET keep == {i \in 1..Len(rows) : IsDict(rows[i]) /\ IsNum(Get(rows[i], "Wavelength"))}
        RECURSIVE Walk(_)
        Walk(i) == IF i > Len(rows) THEN <<>>
                   ELSE IF i \in keep THEN <<PyInt(Get(rows[i], "Wavelength").v)>> \o Walk(i + 1)
                   ELSE Walk(i + 1)
    IN  Walk(1)
\* the wavelengths as the sorted list of the set of the int() of every numeric entry
WavelengthSetOf(rows) ==
    SortedSeq({PyInt(Get(rows[i], "Wavelength").v) :
                i \in {j \in 1..Len(rows) : IsDict(rows[j]) /\ IsNum(Get(rows[j], "Wavelength"))}})

\* _get_wavelengths_nm(doc); doc.get("OpticalData") raises on a doc that is no dict
GetWavelengthsNm(doc) ==
    LET meas == Get(GetOpmRoot(doc), "Measurements")
    IN  IF IsList(meas) THEN Returned(WavelengthSetOf(meas.v))
        ELSE IF ~IsDict(doc) THEN Raised("AttributeError")
        ELSE LET od == Get(doc, "OpticalData")
                 meas2 == IF IsDict(od) THEN Get(od, "Measurements") ELSE meas
             IN  IF IsList(meas2) THEN Returned(WavelengthSetOf(meas2.v))
                 ELSE Returned(<<>>)

\* float(val): a number, or a string of an optional sign and digits with at
\* most two decimals; anything else raises
IsUnsignedFloat(s) ==
    \E n \in 1..Len(s) :
        /\ \A i \in 1..n : s[i] \in Digits
        /\ \/ n = Len(s)
           \/ /\ At(s, n + 1) = "." /\ Len(s) - n \in {2, 3}
              /\ \A i \in (n + 2)..Len(s) : s[i] \in Digits
UnsignedFloatOf(s) ==
    LET n == CHOOSE k \in 1..Len(s) : k = Len(s) \/ s[k + 1] = "."
        frac == Sub(s, n + 2, Len(s))
    IN  100 * IntOfChars(Sub(s, 1, n))
        + (IF Len(frac) = 0 THEN 0
           ELSE IF Len(frac) = 1 THEN 10 * IntOfChars(frac) ELSE IntOfChars(frac))
IsFloatChars(s) ==
    IF s # <<>> /\ Head(s) = "-" THEN IsUnsignedFloat(Tail(s)) ELSE IsUnsignedFloat(s)
FloatOfChars(s) ==
    IF Head(s) = "-" THEN -UnsignedFloatOf(Tail(s)) ELSE UnsignedFloatOf(s)
FloatOk(val) == IsNum(val) \/ (IsStr(val) /\ IsFloatChars(val.v))
FloatOf(val) == IF IsNum(val) THEN val.v ELSE FloatOfChars(val.v)

\* x.get("FiberLength") is a dict whose "LengthInfo" is a dict holding "Length"
HasLengthKey(x) ==
    /\ IsDict(Get(x, "FiberLength"))
    /\ IsDict(Get(Get(x, "FiberLength"), "LengthInfo"))
    /\ Has(Get(Get(x, "FiberLength"), "LengthInfo"), "Length")
\* (float(val), False), or (None, True) for None and for a failing float()
LengthResult(x) ==
    LET val == Get(Get(Get(x, "FiberLength"), "LengthInfo"), "Length")
    IN  IF IsNone(val) \/ ~FloatOk(val) THEN <<Null, TRUE>> ELSE <<Num(FloatOf(val)), FALSE>>
\* a selection by value instead of by presence: the rows whose Length is set
LengthRowsWithValue(meas) ==
    IF IsList(meas)
    THEN {i \in 1..Len(meas.v) :
            /\ IsDict(meas.v[i]) /\ HasLengthKey(meas.v[i])
            /\ ~IsNone(Get(Get(Get(meas.v[i], "FiberLength"), "LengthInfo"), "Length"))}
    ELSE {}
\* the rows of a measurement list that hold the Length key
LengthRows(meas) ==
    IF IsList(meas) THEN {i \in 1..Len(meas.v) : IsDict(meas.v[i]) /\ HasLengthKey(meas.v[i])}
    ELSE {}
FirstOf(S) == CHOOSE i \in S : \A j \in S : i <= j

\* _get_length_numeric_or_missing(doc) = (length, missing): the first place that
\* holds the key decides, in the order rows of Measurement.OpmResultData,
\* OpmResultData itself, rows of OpticalData, the document
GetLengthNumericOrMissing(doc) ==
    IF ~IsDict(doc) THEN <<Null, TRUE>>
    ELSE LET m == Get(doc, "Measurement")
             od == IF IsDict(m) THEN Get(m, "OpmResultData") ELSE Null
             rows1 == IF IsDict(od) THEN LengthRows(Get(od, "Measurements")) ELSE {}
             od2 == Get(doc, "OpticalData")
             rows2 == IF IsDict(od2) THEN LengthRows(Get(od2, "Measurements")) ELSE {}
         IN  IF rows1 # {} THEN LengthResult(Get(od, "Measurements").v[FirstOf(rows1)])
             ELSE IF IsDict(od) /\ HasLengthKey(od) THEN LengthResult(od)
             ELSE IF rows2 # {} THEN LengthResult(Get(od2, "Measurements").v[FirstOf(rows2)])
             ELSE IF HasLengthKey(doc) THEN LengthResult(doc)
             ELSE <<Null, TRUE>>

\* a reading with Status "Fail" in a measurement's Readings list
HasFailReading(m) ==
    /\ Has(m, "Readings") /\ IsList(Get(m, "Readings"))
    /\ \E i \in 1..Len(Get(m, "Readings").v) :
            /\ IsDict(Get(m, "Readings").v[i])
            /\ Get(Get(m, "Readings").v[i], "Status") = Fail

\* _has_high_loss(doc); every exception inside gives False
HasHighLoss(doc) ==
    IF ~IsDict(doc) THEN FALSE
    ELSE IF Get(doc, "GlobalVerdict") = Fail THEN TRUE
    ELSE LET m == Get(doc, "Measurement")
             \* (doc.get("Measurement") or {}).get("OpmResultData") or {}
             mOk == ~Truthy(m) \/ IsDict(m)
             odv == IF Truthy(m) /\ IsDict(m) THEN Get(m, "OpmResultData") ELSE Null
             odOk == ~Truthy(odv) \/ IsDict(odv)
             od == IF Truthy(odv) THEN odv ELSE EmptyDict
         IN  IF ~mOk \/ ~odOk THEN FALSE
             ELSE IF Get(od, "Status") = Fail THEN TRUE
             ELSE IF ~Has(od, "Measurements") THEN FALSE
             ELSE IF ~IsList(Get(od, "Measurements")) THEN FALSE
             ELSE \E i \in 1..Len(Get(od, "Measurements").v) :
                    LET row == Get(od, "Measurements").v[i]
                    IN  /\ IsDict(row)
                        /\ \/ Get(row, "Status") = Fail
                           \/ Get(row, "Verdict") = Fail
                           \/ HasFailReading(row)

----------------------------------------------------------------------------
(* Comparator and BatchOrchestrator: _analyze_pairs_from_opm_paths *)

\* load_json(path): the parsed document of the file, or an exception
LoadError == [t |-> "error"]
LoadJson(fs, path) ==
    IF fs[path] = LoadError THEN Raised("load error") ELSE Returned(fs[path])

DefaultThreshold == 25

\* _get_length_threshold(): max(0.0, float(text.strip())), 0.25 when that raises
GetLengthThreshold(text) ==
    IF ~IsStr(text) \/ ~IsFloatChars(Strip(text.v)) THEN DefaultThreshold
    ELSE IF FloatOfChars(Strip(text.v)) < 0 THEN 0 ELSE FloatOfChars(Strip(text.v))

\* the insertion that files the path under both sides of the key
PairsInsertBothSides(pairs, key, side, path) ==
    [k \in (DOMAIN pairs) \cup {key} |->
        IF k = key THEN [sd \in {"A", "Z"} |-> path] ELSE pairs[k]]

\* an insertion that keeps the path a side already has
PairsInsertKeepFirst(pairs, key, side, path) ==
    [k \in (DOMAIN pairs) \cup {key} |->
        IF k = key
        THEN [sd \in (IF key \in DOMAIN pairs THEN DOMAIN pairs[key] ELSE {}) \cup {side} |->
                IF key \in DOMAIN pairs /\ sd \in DOMAIN pairs[key] THEN pairs[key][sd]
                ELSE path]
        ELSE pairs[k]]

\* pairs.setdefault(key, {})[side] = p
PairsInsert(pairs, key, side, path) ==
    [k \in (DOMAIN pairs) \cup {key} |->
        IF k = key
        THEN [sd \in (IF key \in DOMAIN pairs THEN DOMAIN pairs[key] ELSE {}) \cup {side} |->
                IF sd = side THEN path ELSE pairs[key][sd]]
        ELSE pairs[k]]

\* the order of str: by code point, for the characters of the identifiers
CodeOrder == <<"0", "1", "2", "3", "4", "5", "6", "7", "8", "9",
               "A", "B", "C", "P", "Q", "Z", "_", "a", "c", "x", "y", "z">>
Code(c) == CHOOSE i \in 1..Len(CodeOrder) : CodeOrder[i] = c
RECURSIVE StrLess(_, _)
StrLess(s, t) ==
    IF t = <<>> THEN FALSE
    ELSE IF s = <<>> THEN TRUE
    ELSE IF Head(s) = Head(t) THEN StrLess(Tail(s), Tail(t))
    ELSE Code(Head(s)) < Code(Head(t))

\* the keys taken from the largest down
RECURSIVE SortedKeysDescending(_)
SortedKeysDescending(S) ==
    IF S = {} THEN <<>>
    ELSE LET hi == CHOOSE x \in S : \A y \in S \ {x} : StrLess(y, x)
         IN  <<hi>> \o SortedKeysDescending(S \ {hi})

\* sorted(pairs.items()): the keys in ascending order
RECURSIVE SortedKeys(_)
SortedKeys(S) ==
    IF S = {} THEN <<>>
    ELSE LET lo == CHOOSE x \in S : \A y \in S \ {x} : StrLess(x, y)
         IN  <<lo>> \o SortedKeys(S \ {lo})

ZeroStats ==
    [pairs_checked |-> 0, mismatched_pairs |-> 0, polarity_issue_pairs |-> 0,
     wavelength_mismatches |-> 0, length_issue_pairs |-> 0, high_loss_pairs |-> 0,
     eligible_pairs |-> 0]

Inc(stats, field, cond) == IF cond THEN [stats EXCEPT ![field] = @ + 1] ELSE stats

SeqIf(cond, x) == IF cond THEN <<x>> ELSE <<>>

\* _build_punch_row: the pair key, the issue type (its parts, joined by "+")
\* and the details (its clauses, joined by "; "); note is <<>> for None and
\* <<e>> for f"Compare error: {e}"
\* the label of a row with both issues is the mismatch alone
BuildPunchRowOneLabel(pair_key, mismatch, failure_high_loss, a_fail, z_fail, polarity_issue, wavelength_issue, length_issue, note) ==
    LET parts == IF mismatch THEN <<"MISMATCH">> ELSE SeqIf(failure_high_loss, "FAILURE")
        sides == IF a_fail /\ z_fail THEN "A/Z" ELSE IF a_fail THEN "A"
                 ELSE IF z_fail THEN "Z" ELSE "?"
    IN  [pair_key |-> pair_key,
         issue_type |-> IF parts # <<>> THEN parts ELSE <<"ISSUE">>,
         details |->
             SeqIf(note # <<>>, [clause |-> "Compare error", arg |-> IF note # <<>> THEN note[1] ELSE ""])
             \o SeqIf(failure_high_loss, [clause |-> "High Loss (Status=Fail)", arg |-> sides])
             \o SeqIf(polarity_issue, [clause |-> "Polarity issue", arg |-> ""])
             \o SeqIf(wavelength_issue, [clause |-> "Wavelength mismatch", arg |-> ""])
             \o SeqIf(length_issue, [clause |-> "Length missing/mismatch", arg |-> ""])]

BuildPunchRow(pair_key, mismatch, failure_high_loss, a_fail, z_fail, polarity_issue, wavelength_issue, length_issue, note) ==
    LET parts == SeqIf(mismatch, "MISMATCH") \o SeqIf(failure_high_loss, "FAILURE")
        sides == IF a_fail /\ z_fail THEN "A/Z" ELSE IF a_fail THEN "A"
                 ELSE IF z_fail THEN "Z" ELSE "?"
    IN  [pair_key |-> pair_key,
         issue_type |-> IF parts # <<>> THEN parts ELSE <<"ISSUE">>,
         details |->
             SeqIf(note # <<>>, [clause |-> "Compare error", arg |-> IF note # <<>> THEN note[1] ELSE ""])
             \o SeqIf(failure_high_loss, [clause |-> "High Loss (Status=Fail)", arg |-> sides])
             \o SeqIf(polarity_issue, [clause |-> "Polarity issue", arg |-> ""])
             \o SeqIf(wavelength_issue, [clause |-> "Wavelength mismatch", arg |-> ""])
             \o SeqIf(length_issue, [clause |-> "Length missing/mismatch", arg |-> ""])]

Unknown == Str(<<"U", "n", "k", "n", "o", "w", "n">>)

\* length_mismatch = (length_delta > length_threshold)
LengthMismatchInclusive(length_delta, length_threshold) == length_delta >= length_threshold
LengthMismatch(length_delta, length_threshold) == length_delta > length_threshold

\* a blocker that leaves the length out
HasMergeBlockerNoLength(polarity_issue, length_issue, wavelength_mismatch) ==
    polarity_issue \/ wavelength_mismatch
\* has_merge_blocker = polarity_issue or length_issue or wavelength_mismatch
HasMergeBlocker(polarity_issue, length_issue, wavelength_mismatch) ==
    polarity_issue \/ length_issue \/ wavelength_mismatch

\* the two branches that append to eligible_pairs
EligibleOnlyWhenClean(has_merge_blocker, high_loss) == ~has_merge_blocker /\ ~high_loss
\* the high-loss branch without its "and not has_merge_blocker"
EligibleOnHighLoss(has_merge_blocker, high_loss) == high_loss \/ ~has_merge_blocker
IsEligible(has_merge_blocker, high_loss) ==
    \/ (high_loss /\ ~has_merge_blocker)
    \/ (~has_merge_blocker /\ ~high_loss)

\* the text "A", "Z" or "A+Z" of the high-loss lines
SideTxt(a_high_loss, z_high_loss) ==
    IF a_high_loss /\ ~z_high_loss THEN "A"
    ELSE IF z_high_loss /\ ~a_high_loss THEN "Z" ELSE "A+Z"

\* the except branch of the loop body
CompareErrorUncounted(acc, stats, docs, key, e) ==
    [acc EXCEPT
        !.stats = stats,
        !.punch_pair_docs = docs,
        !.error_blocks = Append(@, [head |-> "MISMATCH", key |-> key,
                                    sections |-> <<>>, compare_error |-> e]),
        !.reports = Append(@, [key |-> key, raised |-> TRUE, err |-> e])]
CompareError(acc, stats, docs, key, e) ==
    [acc EXCEPT
        !.stats = Inc(stats, "mismatched_pairs", TRUE),
        !.punch_pair_docs = docs,
        !.error_blocks = Append(@, [head |-> "MISMATCH", key |-> key,
                                    sections |-> <<>>, compare_error |-> e]),
        !.punch_rows = Append(@, BuildPunchRow(key, TRUE, FALSE, FALSE, FALSE,
                                               FALSE, FALSE, FALSE, <<e>>)),
        !.reports = Append(@, [key |-> key, raised |-> TRUE, err |-> e])]

\* the body of the loop over sorted(pairs.items()) for a complete pair
AnalyzePair(acc, key, sides, fs, length_threshold) ==
    LET stats0 == Inc(acc.stats, "pairs_checked", TRUE)
        la == LoadJson(fs, sides["A"])
        lz == LoadJson(fs, sides["Z"])
        a_doc == la.val
        z_doc == lz.val
        docs == Append(acc.punch_pair_docs, [pair_key |-> key, A_doc |-> a_doc, Z_doc |-> z_doc])
        a_high_loss == HasHighLoss(a_doc)
        z_high_loss == HasHighLoss(z_doc)
        high_loss == a_high_loss \/ z_high_loss
        stats1 == Inc(stats0, "high_loss_pairs", high_loss)
        a_pol == GetActualPolarity(a_doc)
        z_pol == GetActualPolarity(z_doc)
        pol_status_a == GetPolarityStatus(a_doc)
        pol_status_z == GetPolarityStatus(z_doc)
        polarity_missing == IsNone(a_pol) \/ IsNone(z_pol)
        polarity_mismatch == ~IsNone(a_pol) /\ ~IsNone(z_pol) /\ a_pol # z_pol
        polarity_unknown == (pol_status_a = Unknown) \/ (pol_status_z = Unknown)
        polarity_issue == polarity_missing \/ polarity_mismatch \/ polarity_unknown
        stats2 == Inc(stats1, "polarity_issue_pairs", polarity_issue)
        a_wl == GetWavelengthsNm(a_doc)
        z_wl == GetWavelengthsNm(z_doc)
        wavelength_mismatch == a_wl.val # z_wl.val
        stats3 == Inc(stats2, "wavelength_mismatches", wavelength_mismatch)
        a_lm == GetLengthNumericOrMissing(a_doc)
        z_lm == GetLengthNumericOrMissing(z_doc)
        a_len == a_lm[1]
        z_len == z_lm[1]
        length_missing == a_lm[2] \/ z_lm[2]
        both == ~IsNone(a_len) /\ ~IsNone(z_len)
        delta == IF a_len.v >= z_len.v THEN a_len.v - z_len.v ELSE z_len.v - a_len.v
        length_delta == IF both THEN Num(delta) ELSE Null
        length_mismatch == both /\ LengthMismatch(delta, length_threshold)
        length_issue == length_missing \/ length_mismatch
        stats4 == Inc(stats3, "length_issue_pairs", length_issue)
        has_merge_blocker == HasMergeBlocker(polarity_issue, length_issue, wavelength_mismatch)
        rows == IF has_merge_blocker \/ high_loss
                THEN Append(acc.punch_rows,
                        BuildPunchRow(key, has_merge_blocker, high_loss, a_high_loss,
                                      z_high_loss, polarity_issue, wavelength_mismatch,
                                      length_issue, <<>>))
                ELSE acc.punch_rows
        eligible == IsEligible(has_merge_blocker, high_loss)
        report == [key |-> key, raised |-> FALSE,
                   a_high_loss |-> a_high_loss, z_high_loss |-> z_high_loss,
                   high_loss |-> high_loss,
                   a_pol |-> a_pol, z_pol |-> z_pol,
                   polarity_missing |-> polarity_missing,
                   polarity_mismatch |-> polarity_mismatch,
                   polarity_unknown |-> polarity_unknown,
                   polarity_issue |-> polarity_issue,
                   a_wl |-> a_wl.val, z_wl |-> z_wl.val,
                   wavelength_mismatch |-> wavelength_mismatch,
                   a_len |-> a_len, z_len |-> z_len,
                   a_missing |-> a_lm[2], z_missing |-> z_lm[2],
                   length_missing |-> length_missing, length_delta |-> length_delta,
                   length_mismatch |-> length_mismatch, length_issue |-> length_issue,
                   has_merge_blocker |-> has_merge_blocker]
        hl == [section |-> "High Loss", side |-> SideTxt(a_high_loss, z_high_loss)]
        failure == [head |-> "FAILURE", key |-> key, sections |-> <<hl>>,
                    compare_error |-> ""]
        mismatch == [head |-> "MISMATCH", key |-> key,
                     sections |->
                        SeqIf(high_loss, hl)
                        \o SeqIf(polarity_issue, [section |-> "Polarity", side |-> ""])
                        \o SeqIf(wavelength_mismatch, [section |-> "Wavelength", side |-> ""])
                        \o SeqIf(length_missing, [section |-> "Length", side |-> ""])
                        \o SeqIf(length_mismatch, [section |-> "Length mismatch", side |-> ""]),
                     compare_error |-> ""]
    IN  IF la.raised THEN CompareError(acc, stats0, acc.punch_pair_docs, key, la.err)
        ELSE IF lz.raised THEN CompareError(acc, stats0, acc.punch_pair_docs, key, lz.err)
        ELSE IF a_wl.raised THEN CompareError(acc, stats2, docs, key, a_wl.err)
        ELSE IF z_wl.raised THEN CompareError(acc, stats2, docs, key, z_wl.err)
        ELSE [stats |-> Inc(stats4, "mismatched_pairs", has_merge_blocker),
              punch_pair_docs |-> docs,
              punch_rows |-> rows,
              error_blocks |->
                  IF high_loss /\ ~has_merge_blocker THEN Append(acc.error_blocks, failure)
                  ELSE IF has_merge_blocker THEN Append(acc.error_blocks, mismatch)
                  ELSE acc.error_blocks,
              eligible_pairs |->
                  IF eligible THEN Append(acc.eligible_pairs, <<key, sides["A"], sides["Z"]>>)
                  ELSE acc.eligible_pairs,
              reports |-> Append(acc.reports, report)]

----------------------------------------------------------------------------
(* _merge_eligible_pairs *)

\* re.match(r"^(P\d+)_([AZ])(\d{2})_C(\d{2})_(.+)$", stem)
ReMatchMergeStem(stem) ==
    LET m == ReMatchStem(stem)
        n == DigitRun(stem, 2)
    IN  IF m.matched /\ At(stem, 10 + n) = "_" /\ Len(stem) >= 11 + n
        THEN [matched |-> TRUE, path |-> m.path, trunk |-> m.trunk, conn |-> m.conn,
              rest |-> Sub(stem, 11 + n, Len(stem))]
        ELSE [matched |-> FALSE]

\* _safe(s): the characters <>:"/\|?* become "_", then strip() and strip(".")
BadChars == {"<", ">", ":", "\"", "/", "\\", "|", "?", "*"}
RECURSIVE StripDots(_)
StripDots(s) ==
    IF s # <<>> /\ Head(s) = "." THEN StripDots(Tail(s))
    ELSE IF s # <<>> /\ s[Len(s)] = "." THEN StripDots(SubSeq(s, 1, Len(s) - 1))
    ELSE s
Safe(s) == StripDots(Strip([i \in 1..Len(s) |-> IF s[i] \in BadChars THEN "_" ELSE s[i]]))

MergeMF == <<"_", "M", "e", "r", "g", "e", "M", "F">>
DotOpm == <<".", "o", "p", "m">>

\* _build_merged_opm_filename(a_path, z_path)
BuildMergedOpmFilename(a_stem, z_stem) ==
    LET ma == ReMatchMergeStem(a_stem)
        mz == ReMatchMergeStem(z_stem)
    IN  IF ~ma.matched \/ ~mz.matched
        THEN a_stem \o <<"_", "_">> \o z_stem \o MergeMF \o DotOpm
        ELSE Safe(ma.path \o <<"_">> \o ma.trunk \o <<"_", "C">> \o ma.conn \o <<"_">>
                  \o ma.rest \o <<"_", "_">> \o mz.rest \o MergeMF) \o DotOpm

\* the body of the loop over eligible_pairs: the counters, the messages, the
\* output folder, and what the iteration did
\* the message is written and the counter left alone
MergeWriteErrorUncounted(mg, item, e) ==
    [mg EXCEPT
        !.merge_write_errors = Append(@, [pair_key |-> item[1], err |-> e]),
        !.log = Append(@, [pair_key |-> item[1], merged |-> FALSE, err |-> e])]

MergeWriteError(mg, item, e) ==
    [mg EXCEPT
        !.write_errors = @ + 1,
        !.merge_write_errors = Append(@, [pair_key |-> item[1], err |-> e]),
        !.log = Append(@, [pair_key |-> item[1], merged |-> FALSE, err |-> e])]

\* the body without the out_path.exists() test: the target is opened for writing
MergePairBodyOverwrite(mg, item, fs) ==
    LET la == LoadJson(fs, item[2])
        lz == LoadJson(fs, item[3])
        r == MergeOpmDocs(la.val, lz.val)
        out_name == BuildMergedOpmFilename(item[2], item[3])
    IN  IF la.raised THEN MergeWriteError(mg, item, la.err)
        ELSE IF lz.raised THEN MergeWriteError(mg, item, lz.err)
        ELSE IF r.raised THEN MergeWriteError(mg, item, "merge error")
        ELSE [mg EXCEPT
                !.outdir = [n \in (DOMAIN mg.outdir) \cup {out_name} |->
                                IF n = out_name THEN r.out ELSE mg.outdir[n]],
                !.merged = @ + 1,
                !.merged_msgs = Append(@, [pair_key |-> item[1], out_name |-> out_name]),
                !.log = Append(@, [pair_key |-> item[1], merged |-> TRUE,
                                   a_doc |-> la.val, z_doc |-> lz.val, out |-> r.out,
                                   out_name |-> out_name])]

MergePairBody(mg, item, fs) ==
    LET la == LoadJson(fs, item[2])
        lz == LoadJson(fs, item[3])
        r == MergeOpmDocs(la.val, lz.val)
        out_name == BuildMergedOpmFilename(item[2], item[3])
    IN  IF la.raised THEN MergeWriteError(mg, item, la.err)
        ELSE IF lz.raised THEN MergeWriteError(mg, item, lz.err)
        ELSE IF r.raised THEN MergeWriteError(mg, item, "merge error")
        ELSE IF out_name \in DOMAIN mg.outdir
             THEN MergeWriteError(mg, item, "Output already exists")
        ELSE [mg EXCEPT
                !.outdir = [n \in (DOMAIN mg.outdir) \cup {out_name} |->
                                IF n = out_name THEN r.out ELSE mg.outdir[n]],
                !.merged = @ + 1,
                !.merged_msgs = Append(@, [pair_key |-> item[1], out_name |-> out_name]),
                !.log = Append(@, [pair_key |-> item[1], merged |-> TRUE,
                                   a_doc |-> la.val, z_doc |-> lz.val, out |-> r.out,
                                   out_name |-> out_name])]

----------------------------------------------------------------------------
(* Inputs *)

MaxMeas == 2

\* a key that a dict does not hold
Absent == [t |-> "absent"]
DictOf(f) == Dict([k \in {kk \in DOMAIN f : f[kk].t # "absent"} |-> f[k]])

SeqsUpTo(S, n) == UNION {[1..k -> S] : k \in 0..n}
Chars(n) == Str(CharsOfInt(n))

----------------------------------------------------------------------------
(* Key extraction on two identifiers that differ in the side letter only *)

MkStem(path, side, trunk, conn, tail) ==
    path \o <<"_", side>> \o trunk \o <<"_">> \o conn \o tail

KeyIdle ==
    /\ k_stem1 = <<>> /\ k_stem2 = <<>>
    /\ k_res1 = <<Null, Null>> /\ k_res2 = <<Null, Null>>
    /\ k_pc = "idle"

MergeIdle ==
    /\ m_a = Null /\ m_z = Null /\ m_a0 = Null /\ m_z0 = Null
    /\ m_out = Null /\ m_offset = 0 /\ m_pc = "idle"

ZeroAcc ==
    [stats |-> ZeroStats, error_blocks |-> <<>>, eligible_pairs |-> <<>>,
     punch_pair_docs |-> <<>>, punch_rows |-> <<>>, reports |-> <<>>]
ZeroMerge(outdir) ==
    [merged |-> 0, write_errors |-> 0, merged_msgs |-> <<>>, merge_write_errors |-> <<>>,
     outdir |-> outdir, log |-> <<>>]

BatchIdle ==
    /\ b_paths = <<>> /\ b_fs = <<>> /\ b_text = Null /\ b_merge_var = FALSE
    /\ b_pc = "idle" /\ b_i = 0 /\ b_pairs = <<>> /\ b_keys = <<>> /\ b_thr = 0
    /\ b_acc = ZeroAcc /\ b_mg = ZeroMerge(<<>>)
    /\ b_run = 0 /\ b_first = <<>>

MapIdle ==
    /\ p_src = Null /\ p_src0 = Null /\ p_brief = Null /\ p_opm = Null /\ p_i = 0
    /\ p_exc = "" /\ p_out = Null /\ p_pc = "idle"

KeyInit ==
    /\ \E p \in {<<"P", "1">>, <<"P", "1", "2">>, <<"P">>, <<"Q", "1">>},
          s1 \in {"A", "Z", "a", "z", "B"}, s2 \in {"A", "Z", "a", "z", "B"},
          tr \in {<<"0", "3">>, <<"3">>, <<"1", "2">>},
          c \in {<<"C", "0", "1">>, <<"C", "1">>, <<"c", "0", "1">>},
          tl \in {<<>>, <<"_", "x">>, <<"x">>} :
            /\ k_stem1 = MkStem(p, s1, tr, c, tl)
            /\ k_stem2 = MkStem(p, s2, tr, c, tl)
    /\ k_res1 = <<Null, Null>>
    /\ k_res2 = <<Null, Null>>
    /\ k_pc = "start"
    /\ MergeIdle
    /\ BatchIdle
    /\ MapIdle

ExtractFirst ==
    /\ k_pc = "start"
    /\ k_res1' = ExtractAzPairKey(k_stem1)
    /\ k_pc' = "first"
    /\ UNCHANGED <<k_stem1, k_stem2, k_res2, mvars, bvars, pvars>>

ExtractSecond ==
    /\ k_pc = "first"
    /\ k_res2' = ExtractAzPairKey(k_stem2)
    /\ k_pc' = "done"
    /\ UNCHANGED <<k_stem1, k_stem2, k_res1, mvars, bvars, pvars>>

KeyNext == ExtractFirst \/ ExtractSecond

SpecKey == KeyInit /\ [][KeyNext]_vars

----------------------------------------------------------------------------
(* _merge_opm_docs on two documents *)

\* the "Name" values of the measurements: decimal labels, a label with a
\* leading zero, a label that is no number, and no "Name" at all
Labels == {Chars(1), Chars(2), Chars(0), Str(<<"0", "1">>), Str(<<"x">>), Absent}

Nm1310 == Num(131000)
Nm1550 == Num(155000)

MkMeas(label, wl) == DictOf([Name |-> label, Wavelength |-> wl])
MeasOf(labels, wl) == List([i \in 1..Len(labels) |-> MkMeas(labels[i], wl)])

\* an OPM document: GlobalVerdict at document level (mapper.OPM_FIELD_ORDER),
\* the result data under Measurement.OpmResultData
MkOpmDoc(top, od, meas) ==
    DictOf([GlobalVerdict |-> top,
            Measurement |-> Dict([OpmResultData |->
                DictOf([GlobalVerdict |-> od, Measurements |-> meas])])])

\* the labels 1..12 of a 12-fibre connector
Mpo12Labels == [i \in 1..DefaultFiberCount |-> Chars(i)]

\* the pairs of documents merged: every pair of label sequences; every
\* combination of verdicts; documents of another shape (no dict, no
\* measurement list at the canonical place, the already-rooted schema, a
\* measurement that is no dict, a label that isdigit() accepts and int()
\* rejects); the two sides of a 12-fibre connector
MergeInputs ==
    LET Verdicts == {Pass, Fail, Absent}
        MergeFamLabels ==
            {<<MkOpmDoc(Pass, Absent, MeasOf(la, Nm1310)),
               MkOpmDoc(Pass, Absent, MeasOf(lz, Nm1550))>> :
                la \in SeqsUpTo(Labels, MaxMeas), lz \in SeqsUpTo(Labels, MaxMeas)}
        MergeFamVerdict ==
            {<<MkOpmDoc(ta, oa, MeasOf(<<Chars(1)>>, Nm1310)), MkOpmDoc(tz, oz, mz)>> :
                ta \in Verdicts, oa \in Verdicts, tz \in Verdicts, oz \in Verdicts,
                mz \in {MeasOf(<<Chars(1)>>, Nm1550), List(<<>>)}}
        OddDocs ==
            {Str(<<"x">>), List(<<>>),
             MkOpmDoc(Pass, Absent, Null), MkOpmDoc(Pass, Absent, Absent),
             Dict([Measurements |-> MeasOf(<<Chars(1)>>, Nm1310)]),
             Dict([Measurement |-> Str(<<"x">>)]),
             MkOpmDoc(Pass, Fail, List(<<Str(<<"x">>)>>)),
             MkOpmDoc(Pass, Fail, MeasOf(<<Str(<<"^2">>)>>, Nm1310)),
             MkOpmDoc(Pass, Fail, MeasOf(<<Chars(1), Chars(2)>>, Nm1310))}
        MergeFamMpo12 ==
            {<<MkOpmDoc(Pass, Pass, MeasOf(Mpo12Labels, Nm1310)),
               MkOpmDoc(Pass, Pass, MeasOf(Mpo12Labels, Nm1550))>>}
    IN  MergeFamLabels \cup MergeFamVerdict \cup (OddDocs \X OddDocs) \cup MergeFamMpo12

MergeInit ==
    /\ \E p \in MergeInputs :
        /\ m_a = p[1] /\ m_z = p[2]
        /\ m_a0 = p[1] /\ m_z0 = p[2]
    /\ m_out = Null
    /\ m_offset = 0
    /\ m_pc = "start"
    /\ KeyIdle
    /\ BatchIdle
    /\ MapIdle

MergeCall ==
    /\ m_pc = "start"
    /\ LET r == MergeOpmDocs(m_a, m_z)
       IN  /\ m_a' = r.a
           /\ m_z' = r.z
           /\ m_out' = r.out
           /\ m_offset' = r.offset
           /\ m_pc' = IF r.raised THEN "raised" ELSE "returned"
    /\ UNCHANGED <<m_a0, m_z0, kvars, bvars, pvars>>

MergeNext == MergeCall

SpecMerge == MergeInit /\ [][MergeNext]_vars

----------------------------------------------------------------------------
(* The batch: pairing, analysis, merge *)

NumPairs == 2

MPO_B == Str(<<"M", "P", "O", " ", "B">>)

\* a measurement row: label, wavelength, fibre length, status
MkRow(label, wl, len, status) ==
    DictOf([Name |-> label, Wavelength |-> wl, Status |-> status,
            FiberLength |-> IF len = Absent THEN Absent
                            ELSE Dict([LengthInfo |-> Dict([Length |-> len])])])

\* an OPM document in the full schema: verdict, polarity, polarity status,
\* one row per wavelength with the length on every row (on OpmResultData
\* when there is no row), the status of the rows
MkDoc(top, pol, pstat, wls, len, status) ==
    DictOf([GlobalVerdict |-> top,
            Measurement |-> Dict([OpmResultData |-> DictOf([
                Connectors |-> DictOf([
                    ActualConnectors |-> DictOf([PolarityType |-> pol]),
                    ExpectedConnectors |-> Dict([PolarityType |-> MPO_B]),
                    PolarityStatus |-> pstat]),
                FiberLength |-> IF wls # <<>> \/ len = Absent THEN Absent
                                ELSE Dict([LengthInfo |-> Dict([Length |-> len])]),
                Measurements |-> List([i \in 1..Len(wls) |->
                                        MkRow(Chars(i), wls[i], len, status)])])])])

Len100 == Num(10000)
BothWl == <<Nm1310, Nm1550>>
Str1310 == Str(<<"1", "3", "1", "0">>)

\* the text of the tolerance field
Text025 == Str(<<"0", ".", "2", "5">>)
Text024 == Str(<<" ", "0", ".", "2", "4">>)

StemA(i) == <<"P", "1", "_", "A", "0", DigitChar[i], "_", "C", "0", "1", "_", "x">>
StemZ(i) == <<"P", "1", "_", "Z", "0", DigitChar[i], "_", "C", "0", "1", "_", "x">>

\* one pair with documents of one family
SinglePair(docs, texts) ==
    {[paths |-> <<StemA(1), StemZ(1)>>,
      fs |-> [st \in {StemA(1), StemZ(1)} |-> IF st = StemA(1) THEN a ELSE z],
      text |-> t, merge_var |-> TRUE, outdir |-> <<>>] :
        a \in docs, z \in docs, t \in texts}

\* the documents of the batches of several pairs: clean, clean with another
\* length within the tolerance, high loss, length out of tolerance, no dict,
\* rows without wavelength, no row, rooted
DocOk == MkDoc(Pass, MPO_B, Absent, BothWl, Len100, Absent)
DocFail == MkDoc(Pass, MPO_B, Absent, BothWl, Len100, Fail)

\* DocRoot is in the already-rooted schema: Connectors and Measurements at
\* document level; DocRootFail is the same with the status Fail on its rows. The first pair of a batch takes every content, the pairs
\* after it a clean one, one with high loss, one with high loss and a length
\* out of tolerance, and one whose A document is no dict.
PairContents(pos) ==
    LET DocOk2 == MkDoc(Pass, MPO_B, Absent, <<Nm1550, Nm1310>>, Num(10010), Absent)
        DocLong == MkDoc(Pass, MPO_B, Absent, BothWl, Num(10100), Absent)
        DocList == List(<<>>)
        DocNoWl == MkDoc(Pass, MPO_B, Absent, <<Absent, Absent>>, Len100, Absent)
        DocNoRow == MkDoc(Fail, MPO_B, Absent, <<>>, Len100, Absent)
        DocRoot ==
            Dict([GlobalVerdict |-> Pass,
                  Connectors |-> Dict([ActualConnectors |-> Dict([PolarityType |-> MPO_B])]),
                  Measurements |->
                      List([i \in 1..2 |-> MkRow(Chars(i), BothWl[i], Len100, Absent)])])
        DocRootFail ==
            Dict([GlobalVerdict |-> Pass,
                  Connectors |-> Dict([ActualConnectors |-> Dict([PolarityType |-> MPO_B])]),
                  Measurements |->
                      List([i \in 1..2 |-> MkRow(Chars(i), BothWl[i], Len100, Fail)])])
    IN  {<<DocOk, DocOk2>>, <<DocFail, DocOk>>, <<DocFail, DocLong>>, <<DocList, DocFail>>}
        \cup IF pos > 1 THEN {}
             ELSE {<<DocOk, DocLong>>, <<DocOk, DocList>>, <<LoadError, DocOk>>,
                   <<DocOk, LoadError>>, <<DocNoWl, DocNoRow>>, <<DocNoRow, DocNoWl>>,
                   <<DocOk, DocNoWl>>, <<DocRootFail, DocRoot>>}

\* further files: a second A file of the first pair, a file whose name is no
\* pair name, an A file without its Z file
StemDup == <<"P", "1", "_", "A", "0", "1", "_", "C", "0", "1", "_", "y">>
StemJunk == <<"x">>
StemLone == <<"P", "1", "_", "A", "0", "9", "_", "C", "0", "1">>

Reverse(q) == [i \in 1..Len(q) |-> q[Len(q) + 1 - i]]

\* the batches: NumPairs pairs, the files in either order, an extra file, the
\* merge toggle, an output folder that is empty or holds the first target
MultiPair ==
    LET MainStems ==
            [i \in 1..(2 * NumPairs) |->
                IF i % 2 = 1 THEN StemA((i + 1) \div 2) ELSE StemZ(i \div 2)]
        Scenarios ==
            {[extra |-> <<>>, rev |-> FALSE, merge_var |-> TRUE, exists |-> FALSE],
             [extra |-> <<>>, rev |-> TRUE, merge_var |-> TRUE, exists |-> TRUE],
             [extra |-> <<>>, rev |-> FALSE, merge_var |-> FALSE, exists |-> FALSE],
             [extra |-> <<StemDup>>, rev |-> FALSE, merge_var |-> TRUE, exists |-> FALSE],
             [extra |-> <<StemDup>>, rev |-> TRUE, merge_var |-> FALSE, exists |-> FALSE],
             [extra |-> <<StemJunk>>, rev |-> TRUE, merge_var |-> TRUE, exists |-> FALSE],
             [extra |-> <<StemLone>>, rev |-> FALSE, merge_var |-> TRUE, exists |-> TRUE]}
    IN  {[paths |-> IF sc.rev THEN Reverse(MainStems \o sc.extra) ELSE MainStems \o sc.extra,
          fs |-> [st \in {MainStems[i] : i \in 1..Len(MainStems)}
                            \cup {sc.extra[i] : i \in 1..Len(sc.extra)} |->
                    IF \E i \in 1..NumPairs : st = StemA(i)
                    THEN pc[CHOOSE i \in 1..NumPairs : st = StemA(i)][1]
                    ELSE IF \E i \in 1..NumPairs : st = StemZ(i)
                    THEN pc[CHOOSE i \in 1..NumPairs : st = StemZ(i)][2]
                    ELSE DocFail],
          text |-> Text025, merge_var |-> sc.merge_var,
          outdir |-> IF sc.exists
                     THEN [n \in {BuildMergedOpmFilename(StemA(1), StemZ(1))} |-> DocOk]
                     ELSE <<>>] :
            pc \in {f \in [1..NumPairs -> PairContents(1)] :
                        \A i \in 1..NumPairs : f[i] \in PairContents(i)},
            sc \in Scenarios}

\* single pairs of five families of documents, and the batches of several
\* pairs. Flags: every combination of polarity, wavelength, length and high
\* loss. Length: absent, null, no number, numbers around the tolerance, with
\* every tolerance text. Wavelength: every sequence of whole and fractional
\* numbers. Status: polarity strings that differ in spacing and in letter
\* case, the polarity status, a failing row. Encoding: the same wavelengths
\* as numbers, as numeric strings, and mixed. Location: an A document with
\* the length absent, null, no number or a number of its own at each of the
\* places of the length (two rows, the results, a row of OpticalData, the
\* document), against a clean Z document.
BatchInputs ==
    LET FamFlagsDocs ==
            {MkDoc(top, pol, Absent, wl, len, Absent) :
                top \in {Pass, Fail},
                pol \in {Absent, MPO_B, Str(<<"M", "P", "O", " ", "A">>)},
                wl \in {<<Nm1310>>, <<Nm1550>>}, len \in {Absent, Len100, Num(10050)}}
        FamLengthDocs ==
            {MkDoc(Pass, MPO_B, Absent, BothWl, len, Absent) :
                len \in {Absent, Null, Str(<<"a", "b", "c">>), Str(<<"1", "0", ".", "2", "5">>),
                         Num(1000), Num(1024), Num(1025), Num(1026)}}
        ThresholdTexts ==
            {Text025, Text024, Str(<<"0">>), Str(<<"-", "1">>), Str(<<"a", "b", "c">>)}
        FamWavelengthDocs ==
            {MkDoc(Pass, MPO_B, Absent, wl, Len100, Absent) :
                wl \in SeqsUpTo({Nm1310, Nm1550, Num(131050)}, MaxMeas)}
        FamStatusDocs ==
            {MkDoc(Pass, pol, pstat, BothWl, Len100, st) :
                pol \in {MPO_B, Str(<<"M", "P", "O", " ", " ", "B">>),
                         Str(<<"m", "p", "o", " ", "b">>)},
                pstat \in {Absent, Unknown, Pass}, st \in {Absent, Fail}}
        FamEncodingDocs ==
            {MkDoc(Pass, MPO_B, Absent, wl, Len100, Absent) :
                wl \in {BothWl, <<Str1310, Str(<<"1", "5", "5", "0">>)>>, <<Str1310, Nm1550>>}}
        LengthAt(len) ==
            IF len = Absent THEN Absent ELSE Dict([LengthInfo |-> Dict([Length |-> len])])
        FamLocationDocs ==
            {DictOf([GlobalVerdict |-> Pass,
                     Measurement |-> Dict([OpmResultData |-> DictOf([
                        Connectors |-> Dict([
                            ActualConnectors |-> Dict([PolarityType |-> MPO_B])]),
                        FiberLength |-> LengthAt(res),
                        Measurements |-> List(<<MkRow(Chars(1), Nm1310, row1, Absent),
                                                MkRow(Chars(2), Nm1550, row2, Absent)>>)])]),
                     OpticalData |-> Dict([Measurements |->
                                            List(<<MkRow(Chars(1), Nm1310, alt, Absent)>>)]),
                     FiberLength |-> LengthAt(top)]) :
                row1 \in {Absent, Null, Str(<<"a", "b", "c">>), Num(10010)},
                row2 \in {Absent, Num(10011)},
                res \in {Absent, Null, Str(<<"a", "b", "c">>), Num(10020)},
                alt \in {Absent, Null, Num(10030)},
                top \in {Absent, Null, Num(10040)}}
    IN  SinglePair(FamFlagsDocs, {Text025}) \cup SinglePair(FamLengthDocs, ThresholdTexts)
        \cup SinglePair(FamWavelengthDocs, {Text025}) \cup SinglePair(FamStatusDocs, {Text025})
        \cup SinglePair(FamEncodingDocs, {Text025})
        \cup {[paths |-> <<StemA(1), StemZ(1)>>,
               fs |-> [st \in {StemA(1), StemZ(1)} |-> IF st = StemA(1) THEN a ELSE DocOk],
               text |-> Text025, merge_var |-> TRUE, outdir |-> <<>>] : a \in FamLocationDocs}
        \cup MultiPair

BatchInit ==
    /\ \E inp \in BatchInputs :
        /\ b_paths = inp.paths
        /\ b_fs = inp.fs
        /\ b_text = inp.text
        /\ b_merge_var = inp.merge_var
        /\ b_mg = ZeroMerge(inp.outdir)
        /\ b_first = [outdir |-> inp.outdir]
    /\ b_pc = "pairing"
    /\ b_i = 1
    /\ b_pairs = <<>>
    /\ b_keys = <<>>
    /\ b_thr = 0
    /\ b_acc = ZeroAcc
    /\ b_run = 1
    /\ KeyIdle
    /\ MergeIdle
    /\ MapIdle

\* one iteration of the loop over opm_paths
PairFile ==
    /\ b_pc = "pairing" /\ b_i <= Len(b_paths)
    /\ LET ks == ExtractAzPairKey(b_paths[b_i])
       IN  b_pairs' = IF ~Truthy(ks[1]) \/ ks[2] \notin {Str(<<"A">>), Str(<<"Z">>)}
                      THEN b_pairs
                      ELSE PairsInsert(b_pairs, ks[1].v, ks[2].v[1], b_paths[b_i])
    /\ b_i' = b_i + 1
    /\ UNCHANGED <<b_paths, b_fs, b_text, b_merge_var, b_pc, b_keys, b_thr, b_acc, b_mg,
                   b_run, b_first, kvars, mvars, pvars>>

\* the threshold, the empty statistics and the sorted items
StartAnalysis ==
    /\ b_pc = "pairing" /\ b_i > Len(b_paths)
    /\ b_thr' = GetLengthThreshold(b_text)
    /\ b_keys' = SortedKeys(DOMAIN b_pairs)
    /\ b_pc' = "analyzing"
    /\ b_i' = 1
    /\ UNCHANGED <<b_paths, b_fs, b_text, b_merge_var, b_pairs, b_acc, b_mg,
                   b_run, b_first, kvars, mvars, pvars>>

\* the iteration without its try/except: an exception of the body leaves the loop
AnalyzeKeyUncaught ==
    /\ b_pc = "analyzing" /\ b_i <= Len(b_keys)
    /\ LET key == b_keys[b_i]
           sides == b_pairs[key]
           complete == "A" \in DOMAIN sides /\ "Z" \in DOMAIN sides
           raises == complete /\ AnalyzePair(b_acc, key, sides, b_fs, b_thr).reports[Len(b_acc.reports) + 1].raised
       IN  IF raises
           THEN b_pc' = "raised" /\ UNCHANGED <<b_acc, b_i>>
           ELSE /\ b_acc' = IF complete THEN AnalyzePair(b_acc, key, sides, b_fs, b_thr) ELSE b_acc
                /\ b_i' = b_i + 1
                /\ UNCHANGED b_pc
    /\ UNCHANGED <<b_paths, b_fs, b_text, b_merge_var, b_pairs, b_keys, b_thr, b_mg,
                   b_run, b_first, kvars, mvars, pvars>>

\* one iteration of the loop over the sorted items
AnalyzeKey ==
    /\ b_pc = "analyzing" /\ b_i <= Len(b_keys)
    /\ LET key == b_keys[b_i]
           sides == b_pairs[key]
       IN  b_acc' = IF "A" \notin DOMAIN sides \/ "Z" \notin DOMAIN sides
                    THEN b_acc
                    ELSE AnalyzePair(b_acc, key, sides, b_fs, b_thr)
    /\ b_i' = b_i + 1
    /\ UNCHANGED <<b_paths, b_fs, b_text, b_merge_var, b_pc, b_pairs, b_keys, b_thr, b_mg,
                   b_run, b_first, kvars, mvars, pvars>>

\* stats["eligible_pairs"] = len(eligible_pairs); return
AnalysisReturn ==
    /\ b_pc = "analyzing" /\ b_i > Len(b_keys)
    /\ b_acc' = [b_acc EXCEPT !.stats.eligible_pairs = Len(b_acc.eligible_pairs)]
    /\ b_pc' = "analyzed"
    /\ UNCHANGED <<b_paths, b_fs, b_text, b_merge_var, b_i, b_pairs, b_keys, b_thr, b_mg,
                   b_run, b_first, kvars, mvars, pvars>>

\* the merge loop started whatever the toggle says
StartMergeAlways ==
    /\ b_pc = "analyzed"
    /\ b_pc' = "merging"
    /\ b_i' = 1
    /\ UNCHANGED <<b_paths, b_fs, b_text, b_merge_var, b_pairs, b_keys, b_thr, b_acc, b_mg,
                   b_run, b_first, kvars, mvars, pvars>>

\* if self.merge_var.get(): the merge loop starts
StartMerge ==
    /\ b_pc = "analyzed" /\ b_merge_var
    /\ b_pc' = "merging"
    /\ b_i' = 1
    /\ UNCHANGED <<b_paths, b_fs, b_text, b_merge_var, b_pairs, b_keys, b_thr, b_acc, b_mg,
                   b_run, b_first, kvars, mvars, pvars>>

\* merging is off: merge_stats stays {"merged": 0, "write_errors": 0}
SkipMerge ==
    /\ b_pc = "analyzed" /\ ~b_merge_var
    /\ b_pc' = "done"
    /\ UNCHANGED <<b_paths, b_fs, b_text, b_merge_var, b_i, b_pairs, b_keys, b_thr, b_acc, b_mg,
                   b_run, b_first, kvars, mvars, pvars>>

\* one iteration of the loop over eligible_pairs
MergePair ==
    /\ b_pc = "merging" /\ b_i <= Len(b_acc.eligible_pairs)
    /\ b_mg' = MergePairBody(b_mg, b_acc.eligible_pairs[b_i], b_fs)
    /\ b_i' = b_i + 1
    /\ UNCHANGED <<b_paths, b_fs, b_text, b_merge_var, b_pc, b_pairs, b_keys, b_thr, b_acc,
                   b_run, b_first, kvars, mvars, pvars>>

MergeReturn ==
    /\ b_pc = "merging" /\ b_i > Len(b_acc.eligible_pairs)
    /\ b_pc' = "done"
    /\ UNCHANGED <<b_paths, b_fs, b_text, b_merge_var, b_i, b_pairs, b_keys, b_thr, b_acc, b_mg,
                   b_run, b_first, kvars, mvars, pvars>>

\* the operation is started once more on the same files and tolerance: on
\* the output folder as the first run left it, the files listed in the same
\* or in the opposite order, or on an output folder as the first run found it
Rerun ==
    /\ b_pc = "done" /\ b_run = 1
    /\ \E how \in {"again", "reversed", "fresh"} :
        /\ b_paths' = IF how = "reversed" THEN Reverse(b_paths) ELSE b_paths
        /\ b_mg' = ZeroMerge(IF how = "fresh" THEN b_first.outdir ELSE b_mg.outdir)
        /\ b_first' = [outdir |-> b_first.outdir, paths |-> b_paths, acc |-> b_acc, mg |-> b_mg,
                       start |-> IF how = "fresh" THEN b_first.outdir ELSE b_mg.outdir]
    /\ b_run' = 2
    /\ b_pc' = "pairing"
    /\ b_i' = 1
    /\ b_pairs' = <<>>
    /\ b_keys' = <<>>
    /\ b_thr' = 0
    /\ b_acc' = ZeroAcc
    /\ UNCHANGED <<b_fs, b_text, b_merge_var, kvars, mvars, pvars>>

BatchNext ==
    \/ PairFile \/ StartAnalysis \/ AnalyzeKey \/ AnalysisReturn
    \/ StartMerge \/ SkipMerge \/ MergePair \/ MergeReturn \/ Rerun

SpecBatch == BatchInit /\ [][BatchNext]_vars

\* what a step of BatchNext does to the phase and the loop index
ControlStep ==
    \/ b_pc = "pairing" /\ b_i <= Len(b_paths) /\ b_i' = b_i + 1 /\ b_pc' = b_pc
    \/ b_pc = "pairing" /\ b_i > Len(b_paths) /\ b_i' = 1 /\ b_pc' = "analyzing"
    \/ b_pc = "analyzing" /\ b_i <= Len(b_keys) /\ b_i' = b_i + 1 /\ b_pc' = b_pc
    \/ b_pc = "analyzing" /\ b_i > Len(b_keys) /\ b_i' = b_i /\ b_pc' = "analyzed"
    \/ b_pc = "analyzed" /\ b_merge_var /\ b_i' = 1 /\ b_pc' = "merging"
    \/ b_pc = "analyzed" /\ ~b_merge_var /\ b_i' = b_i /\ b_pc' = "done"
    \/ b_pc = "merging" /\ b_i <= Len(b_acc.eligible_pairs) /\ b_i' = b_i + 1 /\ b_pc' = b_pc
    \/ b_pc = "merging" /\ b_i > Len(b_acc.eligible_pairs) /\ b_i' = b_i /\ b_pc' = "done"

\* the loops are sequential code without any wait: while a loop has a next
\* statement, the statement is executed
SpecBatchLive == BatchInit /\ [][BatchNext]_vars /\ WF_<<b_pc, b_i>>(ControlStep)

----------------------------------------------------------------------------
(* Mapper: map_pxm_json_to_opm (src/json2opm/mapper.py) *)

OPM_FIELD_ORDER ==
    <<"JsonVersion", "TestDateTime", "MeasurementId", "MeasurementName",
      "Identification", "Identifiers", "Hardware", "Reporting", "Context",
      "Measurement", "GlobalVerdict">>

_as_dict(v) == IF IsDict(v) THEN v ELSE EmptyDict

\* d.pop(k, None)
Pop(d, k) == Dict([kk \in (DOMAIN d.v) \ {k} |-> d.v[kk]])

\* CompanyName and CustomerName always taken from company and customer
_normalize_identification_overwrite(ident) ==
    LET d0 == _as_dict(ident)
        d1 == Pop(Pop(d0, "Geolocation"), "GeolocationDetails")
        d2 == IF Has(d1, "company") THEN Put(d1, "CompanyName", Get(d1, "company")) ELSE d1
        d3 == IF Has(d2, "customer") THEN Put(d2, "CustomerName", Get(d2, "customer")) ELSE d2
    IN  Pop(Pop(d3, "company"), "customer")

\* the object ident after _normalize_identification(ident): d = dict(...) is
\* a new dict, and every pop and assignment goes to d
IdentAfter(ident) == ident

_normalize_identification(ident) ==
    LET d0 == _as_dict(ident)
        d1 == Pop(Pop(d0, "Geolocation"), "GeolocationDetails")
        d2 == IF ~Has(d1, "CompanyName") /\ Has(d1, "company")
              THEN Put(d1, "CompanyName", Get(d1, "company")) ELSE d1
        d3 == IF ~Has(d2, "CustomerName") /\ Has(d2, "customer")
              THEN Put(d2, "CustomerName", Get(d2, "customer")) ELSE d2
    IN  Pop(Pop(d3, "company"), "customer")

BriefChars == <<"b", "r", "i", "e", "f">>

\* "brief" in src: key membership for a dict, element membership for a list,
\* substring for a str, TypeError for a value that is no container
BriefIn(src) ==
    CASE IsDict(src) -> Returned("brief" \in DOMAIN src.v)
      [] IsList(src) -> Returned(\E i \in 1..Len(src.v) : src.v[i] = Str(BriefChars))
      [] IsStr(src) ->
            Returned(\E i \in 1..Len(src.v) :
                        /\ i + Len(BriefChars) - 1 <= Len(src.v)
                        /\ SubSeq(src.v, i, i + Len(BriefChars) - 1) = BriefChars)
      [] OTHER -> Raised("TypeError")

\* src["brief"]: the value for a dict, TypeError for a list or a str
BriefOf(src) ==
    IF IsDict(src) THEN Returned(src.v["brief"]) ELSE Raised("TypeError")

\* opm[field] = x on a dict that keeps the order in which keys were added
OrderedPut(opm, field, x) ==
    [order |-> IF field \in DOMAIN opm.v THEN opm.order ELSE Append(opm.order, field),
     v |-> [kk \in (DOMAIN opm.v) \cup {field} |-> IF kk = field THEN x ELSE opm.v[kk]]]

\* an absent field is left out of the result
MapFieldSkipMissing(opm, brief, field) ==
    IF ~Has(brief, field) THEN Returned(opm)
    ELSE IF field = "Identification"
    THEN Returned(OrderedPut(opm, field, _normalize_identification(Get(brief, field))))
    ELSE Returned(OrderedPut(opm, field, brief.v[field]))

\* the body of the loop over OPM_FIELD_ORDER
MapField(opm, brief, field) ==
    IF ~Has(brief, field) THEN Raised("ValueError")
    ELSE IF field = "Identification"
    THEN Returned(OrderedPut(opm, field, _normalize_identification(Get(brief, field))))
    ELSE Returned(OrderedPut(opm, field, brief.v[field]))

\* the largest number of fields of OPM_FIELD_ORDER a brief lacks
MaxMissing == 2

FieldSet == {OPM_FIELD_ORDER[i] : i \in 1..Len(OPM_FIELD_ORDER)}

\* the sources: a brief that lacks up to MaxMissing fields, with or without a
\* key outside the list, with an Identification to normalize or one that is
\* no dict; a source with a second section; sources without brief, with a
\* brief that is no dict, and sources that are no dict
MapInit ==
    /\ LET Identifications ==
               {Dict([JobId |-> Str(<<"J">>), Geolocation |-> Str(<<"g">>),
                      GeolocationDetails |-> EmptyDict, company |-> Str(<<"c">>)]),
                Dict([CompanyName |-> Str(<<"N">>), company |-> Str(<<"c">>),
                      customer |-> Str(<<"u">>)]),
                Str(<<"x">>)}
           Briefs ==
               {Dict([f \in (FieldSet \ miss) \cup extra |->
                       IF f = "Identification" THEN ident ELSE Str(<<"v">>)]) :
                   miss \in {m \in SUBSET FieldSet : Cardinality(m) <= MaxMissing},
                   extra \in {{}, {"Extra"}},
                   ident \in Identifications}
           Sources ==
               {Dict([brief |-> b]) : b \in Briefs}
               \cup {Dict([brief |-> b, full |-> EmptyDict]) :
                        b \in {bb \in Briefs : FieldSet \subseteq DOMAIN bb.v}}
               \cup {EmptyDict, Dict([full |-> EmptyDict]), Dict([brief |-> Null]),
                     Dict([brief |-> List(<<>>)]),
                     List(<<>>), List(<<Str(BriefChars)>>), Str(BriefChars), Str(<<"x">>),
                     Num(100), Null}
       IN  p_src \in Sources
    /\ p_src0 = p_src
    /\ p_brief = Null
    /\ p_opm = Null
    /\ p_i = 0
    /\ p_exc = ""
    /\ p_out = Null
    /\ p_pc = "start"
    /\ KeyIdle
    /\ MergeIdle
    /\ BatchIdle

\* if "brief" not in src: raise ValueError; brief = _as_dict(src["brief"]); opm = {}
MapEnter ==
    /\ p_pc = "start"
    /\ LET isin == BriefIn(p_src)
           got == BriefOf(p_src)
           exc == IF isin.raised THEN isin.err
                  ELSE IF ~isin.val THEN "ValueError"
                  ELSE IF got.raised THEN got.err
                  ELSE ""
       IN  /\ p_exc' = exc
           /\ p_pc' = IF exc = "" THEN "loop" ELSE "raised"
           /\ p_brief' = IF exc = "" THEN _as_dict(got.val) ELSE p_brief
           /\ p_opm' = IF exc = "" THEN [order |-> <<>>, v |-> <<>>] ELSE p_opm
           /\ p_i' = IF exc = "" THEN 1 ELSE p_i
    /\ UNCHANGED <<p_src, p_src0, p_out, kvars, mvars, bvars>>

\* one iteration of the loop over OPM_FIELD_ORDER; brief is the object
\* src["brief"] and brief["Identification"] the object handed to
\* _normalize_identification, so what the call does to it shows in src
MapStep ==
    /\ p_pc = "loop" /\ p_i <= Len(OPM_FIELD_ORDER)
    /\ LET field == OPM_FIELD_ORDER[p_i]
           r == MapField(p_opm, p_brief, field)
           brief == IF field = "Identification"
                    THEN Put(p_brief, field, IdentAfter(Get(p_brief, field)))
                    ELSE p_brief
       IN  IF r.raised
           THEN /\ p_exc' = r.err
                /\ p_pc' = "raised"
                /\ UNCHANGED <<p_opm, p_i, p_brief, p_src>>
           ELSE /\ p_opm' = r.val
                /\ p_i' = p_i + 1
                /\ p_brief' = brief
                /\ p_src' = Put(p_src, "brief", brief)
                /\ UNCHANGED <<p_exc, p_pc>>
    /\ UNCHANGED <<p_src0, p_out, kvars, mvars, bvars>>

\* return opm
MapReturn ==
    /\ p_pc = "loop" /\ p_i > Len(OPM_FIELD_ORDER)
    /\ p_out' = p_opm
    /\ p_pc' = "returned"
    /\ UNCHANGED <<p_src, p_src0, p_brief, p_opm, p_i, p_exc, kvars, mvars, bvars>>

MapNext == MapEnter \/ MapStep \/ MapReturn

SpecMap == MapInit /\ [][MapNext]_vars

----------------------------------------------------------------------------
(* Properties of _extract_az_pair_key *)

\* the identifiers of the documented form P<digits>_<side><2 digits>_C<2 digits>,
\* alone or followed by _<rest>, except for the side letter
GoodPaths == {<<"P", "1">>, <<"P", "1", "2">>}
GoodTrunks == {<<"0", "3">>, <<"1", "2">>}
GoodConns == {<<"C", "0", "1">>}
GoodTails == {<<>>, <<"_", "x">>}
UpperOf(c) == CASE c = "a" -> "A" [] c = "z" -> "Z" [] OTHER -> c

\* the two identifiers are of the documented form, with side letters from S
TwinStems(S) ==
    \E p \in GoodPaths, tr \in GoodTrunks, c \in GoodConns, tl \in GoodTails, s1 \in S, s2 \in S :
        k_stem1 = MkStem(p, s1, tr, c, tl) /\ k_stem2 = MkStem(p, s2, tr, c, tl)
SideLetter1 == At(k_stem1, DigitRun(k_stem1, 2) + 3)
SideLetter2 == At(k_stem2, DigitRun(k_stem2, 2) + 3)

----------------------------------------------------------------------------
(* Properties of _merge_opm_docs *)

MergeDone == m_pc \in {"returned", "raised"}

\* the "Name" of a measurement (None when it has none)
LabelOf(m) == IF IsDict(m) THEN Get(m, "Name") ELSE Null
LabelsOf(doc) == [i \in 1..Len(GetMeasurements(doc)) |-> LabelOf(GetMeasurements(doc)[i])]
Distinct(seq) == \A i, j \in 1..Len(seq) : i # j => seq[i] # seq[j]

IsDecimal(x) == IsStr(x) /\ x.v # <<>> /\ \A i \in 1..Len(x.v) : x.v[i] \in Digits
NumericLabels(doc) ==
    {IntOfChars(LabelsOf(doc)[i].v) : i \in {j \in 1..Len(LabelsOf(doc)) : IsDecimal(LabelsOf(doc)[j])}}
MaxOf(S) == CHOOSE x \in S : \A y \in S : y <= x

\* the document-level verdict (OPM_FIELD_ORDER's GlobalVerdict)
TopVerdict(doc) == IF IsDict(doc) THEN Get(doc, "GlobalVerdict") ELSE Null

\* C3: after _merge_opm_docs(A, Z) the objects A and Z hold the values they
\* held before the call, on every path (degenerate, shifted, verdict set, raised).
C3_MergePurity == MergeDone => (m_a = m_a0 /\ m_z = m_z0)

C3_Witness ==
    /\ m_pc = "returned"
    /\ Verdict(m_out) = Fail /\ Verdict(m_a0) # Fail
    /\ Len(GetMeasurements(m_out)) > Len(GetMeasurements(m_a0))
    /\ LabelsOf(m_out) # LabelsOf(m_a0) \o LabelsOf(m_z0)

\* C4 as claimed: the labels of every merged document are pairwise distinct.
C4_Original == m_pc = "returned" => Distinct(LabelsOf(m_out))

\* C4 as amended: when A's labels are pairwise distinct and Z's labels are
\* decimal numbers >= 1 that are pairwise distinct as numbers, the labels of
\* the merged document are pairwise distinct.
C4_Precondition ==
    /\ Distinct(LabelsOf(m_a0))
    /\ \A i \in 1..Len(LabelsOf(m_z0)) :
            IsDecimal(LabelsOf(m_z0)[i]) /\ IntOfChars(LabelsOf(m_z0)[i].v) >= 1
    /\ Distinct([i \in 1..Len(LabelsOf(m_z0)) |-> IntOfChars(LabelsOf(m_z0)[i].v)])

C4_DistinctLabels ==
    (m_pc = "returned" /\ C4_Precondition) => Distinct(LabelsOf(m_out))

C4_Witness ==
    /\ m_pc = "returned" /\ C4_Precondition
    /\ Len(LabelsOf(m_a0)) >= 2 /\ Len(LabelsOf(m_z0)) >= 2
    /\ Len(LabelsOf(m_out)) = Len(LabelsOf(m_a0)) + Len(LabelsOf(m_z0))
    /\ \E i \in 1..Len(LabelsOf(m_a0)), j \in 1..Len(LabelsOf(m_z0)) :
            LabelsOf(m_a0)[i] = LabelsOf(m_z0)[j]

\* C5 as claimed: the merged document-level verdict is "Fail" when A's or Z's
\* document-level verdict is "Fail", and A's verdict otherwise.
C5_WorstCaseVerdict ==
    m_pc = "returned" =>
        IF TopVerdict(m_a0) = Fail \/ TopVerdict(m_z0) = Fail
        THEN TopVerdict(m_out) = Fail
        ELSE TopVerdict(m_out) = TopVerdict(m_a0)

\* the shifted copy of a Z measurement
ShiftedBy(m, off) ==
    IF IsDecimal(LabelOf(m))
    THEN Put(m, "Name", Str(CharsOfInt(IntOfChars(LabelOf(m).v) + off)))
    ELSE m
ShiftedMeas(doc, off) ==
    [i \in 1..Len(GetMeasurements(doc)) |-> ShiftedBy(GetMeasurements(doc)[i], off)]

NonDegenerate ==
    m_pc = "returned" /\ GetMeasurements(m_a0) # <<>> /\ GetMeasurements(m_z0) # <<>>

\* C10 as claimed: the offset is the largest decimal label of A, or 12 when no
\* label of A is decimal; the merged list is A's measurements, then Z's with
\* every decimal label n replaced by n + offset.
C10_ClaimedOffset ==
    IF NumericLabels(m_a0) = {} THEN DefaultFiberCount ELSE MaxOf(NumericLabels(m_a0))

C10_Original ==
    NonDegenerate =>
        /\ m_offset = C10_ClaimedOffset
        /\ GetMeasurements(m_out) =
                GetMeasurements(m_a0) \o ShiftedMeas(m_z0, C10_ClaimedOffset)

\* C10 as amended: the offset is the largest decimal label of A when that is
\* at least 1, and 12 otherwise (no decimal label, or none above 0); when both
\* lists are non-empty, the merged list is A's measurements in order, then
\* Z's in order with every decimal label n replaced by str(n + offset).
C10_Offset ==
    IF NumericLabels(m_a0) = {} \/ MaxOf(NumericLabels(m_a0) \cup {0}) = 0
    THEN DefaultFiberCount
    ELSE MaxOf(NumericLabels(m_a0))

C10_IndexShift ==
    NonDegenerate =>
        /\ m_offset = C10_Offset
        /\ GetMeasurements(m_out) = GetMeasurements(m_a0) \o ShiftedMeas(m_z0, C10_Offset)

C10_Witness ==
    /\ NonDegenerate
    /\ m_offset = DefaultFiberCount
    /\ LabelsOf(m_a0) = Mpo12Labels /\ LabelsOf(m_z0) = Mpo12Labels
    /\ LabelsOf(m_out) = [i \in 1..(2 * DefaultFiberCount) |-> Chars(i)]

----------------------------------------------------------------------------
(* Properties of _analyze_pairs_from_opm_paths and _merge_eligible_pairs *)

AnalysisDone == b_pc \in {"analyzed", "merging", "done"}
CompleteKeys == {k \in DOMAIN b_pairs : {"A", "Z"} \subseteq DOMAIN b_pairs[k]}
ADocOf(key) == b_fs[b_pairs[key]["A"]]
ZDocOf(key) == b_fs[b_pairs[key]["Z"]]
Reports == {b_acc.reports[i] : i \in 1..Len(b_acc.reports)}
Flags == {r \in Reports : ~r.raised}
EligibleKeys == {b_acc.eligible_pairs[i][1] : i \in 1..Len(b_acc.eligible_pairs)}
Abs(n) == IF n >= 0 THEN n ELSE -n

\* C1: a pair whose flags were computed is in the eligible list (with its A
\* and Z paths) exactly when none of polarity_issue, wavelength_mismatch and
\* length_issue is set; high loss makes no difference.
C1_Eligibility ==
    /\ \A r \in Flags :
            (r.key \in EligibleKeys) <=>
                ~(r.polarity_issue \/ r.wavelength_mismatch \/ r.length_issue)
    /\ \A i \in 1..Len(b_acc.eligible_pairs) :
            LET e == b_acc.eligible_pairs[i]
            IN  /\ e = <<e[1], b_pairs[e[1]]["A"], b_pairs[e[1]]["Z"]>>
                /\ \E r \in Flags : r.key = e[1]

C1_Witness ==
    /\ b_pc = "done" /\ b_mg.merged >= 1
    /\ \E r \in Flags :
            /\ r.high_loss /\ ~r.polarity_issue /\ ~r.wavelength_mismatch /\ ~r.length_issue
            /\ r.key \in EligibleKeys
    /\ \E r \in Flags : r.length_issue /\ r.high_loss /\ r.key \notin EligibleKeys

\* the pairs on which the loop body raises: a file that does not load, a
\* document that is no dict
Raising(key) ==
    \/ ADocOf(key) = LoadError \/ ZDocOf(key) = LoadError
    \/ ~IsDict(ADocOf(key)) \/ ~IsDict(ZDocOf(key))

\* C6: when the loop body raises on a complete pair K, every complete pair is
\* still processed once, K gets an error block and a punch row that carry the
\* error text as "Compare error", K counts as a mismatched pair, and K is not
\* in the eligible list.
C6_ErrorIsolation ==
    AnalysisDone =>
        /\ {r.key : r \in Reports} = CompleteKeys
        /\ Len(b_acc.reports) = Cardinality(CompleteKeys)
        /\ b_acc.stats.pairs_checked = Cardinality(CompleteKeys)
        /\ \A r \in Reports : r.raised <=> Raising(r.key)
        /\ \A r \in Reports : r.raised =>
                /\ r.key \notin EligibleKeys
                /\ \E i \in 1..Len(b_acc.error_blocks) :
                        b_acc.error_blocks[i] = [head |-> "MISMATCH", key |-> r.key,
                                                 sections |-> <<>>, compare_error |-> r.err]
                /\ \E i \in 1..Len(b_acc.punch_rows) :
                        b_acc.punch_rows[i] =
                            [pair_key |-> r.key, issue_type |-> <<"MISMATCH">>,
                             details |-> <<[clause |-> "Compare error", arg |-> r.err]>>]
        /\ b_acc.stats.mismatched_pairs =
                Cardinality({r \in Reports : r.raised \/ r.has_merge_blocker})

C6_Witness ==
    /\ b_pc = "done" /\ b_mg.merged = 1
    /\ Len(b_acc.reports) = NumPairs
    /\ b_acc.reports[1].raised /\ b_acc.reports[1].err = "AttributeError"
    /\ ~b_acc.reports[NumPairs].raised
    /\ b_acc.reports[NumPairs].key \in EligibleKeys
    /\ b_acc.stats.mismatched_pairs = 1
    /\ Len(b_acc.punch_rows) = 1

\* C7: when both lengths are numbers, length_mismatch is set exactly when
\* |a_len - z_len| is greater than the tolerance (0.25 for the setting "0.25",
\* 0.24 for "0.24"); a delta equal to the tolerance is no mismatch.
C7_StrictTolerance ==
    /\ (b_pc # "pairing" /\ b_text = Text025) => b_thr = 25
    /\ (b_pc # "pairing" /\ b_text = Text024) => b_thr = 24
    /\ \A r \in Flags :
            (IsNum(r.a_len) /\ IsNum(r.z_len)) =>
                (r.length_mismatch <=> Abs(r.a_len.v - r.z_len.v) > b_thr)

C7_Witness ==
    /\ b_pc = "done" /\ b_text = Text025 /\ b_thr = 25
    /\ \E r \in Flags :
            /\ r.a_len = Num(1000) /\ r.z_len = Num(1025)
            /\ r.length_delta = Num(25)
            /\ ~r.length_mismatch /\ ~r.length_issue
            /\ r.key \in EligibleKeys

\* the Wavelength values of the rows of a document, and the documents in
\* which every row is a dict whose Wavelength, when present, is a number
RowsOf(doc) ==
    IF IsList(Get(GetOpmRoot(doc), "Measurements"))
    THEN Get(GetOpmRoot(doc), "Measurements").v ELSE <<>>
WavelengthsOf(doc) ==
    {Get(RowsOf(doc)[i], "Wavelength").v :
        i \in {j \in 1..Len(RowsOf(doc)) : Has(RowsOf(doc)[j], "Wavelength")}}
NumericWavelengths(doc) ==
    /\ IsDict(doc)
    /\ \A i \in 1..Len(RowsOf(doc)) :
            /\ IsDict(RowsOf(doc)[i])
            /\ Has(RowsOf(doc)[i], "Wavelength") => IsNum(Get(RowsOf(doc)[i], "Wavelength"))
WholeNm(S) == {PyInt(w) : w \in S}

\* C8 as claimed: wavelength_mismatch is set exactly when the sets of the
\* wavelength values of the two documents differ.
C8_Original ==
    \A r \in Flags :
        (NumericWavelengths(ADocOf(r.key)) /\ NumericWavelengths(ZDocOf(r.key))) =>
            (r.wavelength_mismatch <=>
                WavelengthsOf(ADocOf(r.key)) # WavelengthsOf(ZDocOf(r.key)))

\* C8 as amended: wavelength_mismatch is set exactly when the sets of the
\* whole-nanometre parts int(w) of the wavelength values differ; order and
\* repetition make no difference.
C8_WavelengthSets ==
    \A r \in Flags :
        (NumericWavelengths(ADocOf(r.key)) /\ NumericWavelengths(ZDocOf(r.key))) =>
            (r.wavelength_mismatch <=>
                WholeNm(WavelengthsOf(ADocOf(r.key))) # WholeNm(WavelengthsOf(ZDocOf(r.key))))

C8_Witness ==
    /\ b_pc = "done"
    /\ \E r \in Flags :
            /\ ADocOf(r.key) = MkDoc(Pass, MPO_B, Absent, <<Nm1550, Nm1310>>, Len100, Absent)
            /\ ZDocOf(r.key) = MkDoc(Pass, MPO_B, Absent, <<Nm1310, Nm1550>>, Len100, Absent)
            /\ r.a_wl = <<1310, 1550>> /\ r.z_wl = <<1310, 1550>>
            /\ ~r.wavelength_mismatch
            /\ r.key \in EligibleKeys

\* the iterations of the merge loop that wrote a merged document
Merges == {b_mg.log[i] : i \in {j \in 1..Len(b_mg.log) : b_mg.log[j].merged}}

\* C9 as claimed: every merged document has as many measurements as A and Z
\* together.
C9_Original ==
    \A g \in Merges :
        Len(GetMeasurements(g.out)) =
            Len(GetMeasurements(g.a_doc)) + Len(GetMeasurements(g.z_doc))

\* C9 as amended: a merged document has as many measurements as A and Z
\* together when both lists under Measurement.OpmResultData.Measurements are
\* non-empty; otherwise it is the copy of A, without Z's measurements.
C9_MergedCount ==
    \A g \in Merges :
        /\ g.pair_key \in EligibleKeys
        /\ IF GetMeasurements(g.a_doc) # <<>> /\ GetMeasurements(g.z_doc) # <<>>
           THEN Len(GetMeasurements(g.out)) =
                    Len(GetMeasurements(g.a_doc)) + Len(GetMeasurements(g.z_doc))
           ELSE g.out = g.a_doc

C9_Witness ==
    /\ b_pc = "done" /\ b_mg.merged = NumPairs
    /\ \E g \in Merges :
            /\ Len(GetMeasurements(g.a_doc)) = 2 /\ Len(GetMeasurements(g.z_doc)) = 2
            /\ Len(GetMeasurements(g.out)) = 4
            /\ LabelsOf(g.out) = <<Chars(1), Chars(2), Chars(3), Chars(4)>>

\* C11 as claimed: _merge_opm_docs returns a document for any two documents
\* and never raises.
C11_NeverRaises == m_pc # "raised"

\* the keys of the input identifiers of one side, and the keys that have an
\* identifier of each side
InputKeys(side) ==
    {ExtractAzPairKey(b_paths[i])[1].v :
        i \in {j \in 1..Len(b_paths) : ExtractAzPairKey(b_paths[j])[2] = Str(<<side>>)}}
InputPairs ==
    LET got == {ExtractAzPairKey(b_paths[i]) : i \in 1..Len(b_paths)}
    IN  {g[1].v : g \in {h \in got : h[2] = Str(<<"A">>)}}
        \cap {g[1].v : g \in {h \in got : h[2] = Str(<<"Z">>)}}
Counters ==
    {"mismatched_pairs", "polarity_issue_pairs", "wavelength_mismatches",
     "length_issue_pairs", "high_loss_pairs", "eligible_pairs"}

\* C12: pairs_checked is the number of keys with both an A and a Z
\* identifier; an identifier that does not match gives (None, None) and is in
\* no pair; every report, counter, error block, punch row and eligible entry
\* belongs to a key with both sides.
C12_OnlyCompletePairs ==
    /\ \A i \in 1..Len(b_paths) :
            b_paths[i] = StemJunk =>
                /\ ExtractAzPairKey(b_paths[i]) = <<Null, Null>>
                /\ \A k \in DOMAIN b_pairs : \A sd \in DOMAIN b_pairs[k] :
                        b_pairs[k][sd] # b_paths[i]
    /\ AnalysisDone =>
            LET complete == InputPairs
                n == Cardinality(complete)
            IN  /\ b_acc.stats.pairs_checked = n
                /\ {r.key : r \in Reports} = complete
                /\ \A c \in Counters : b_acc.stats[c] <= n
                /\ \A i \in 1..Len(b_acc.error_blocks) : b_acc.error_blocks[i].key \in complete
                /\ \A i \in 1..Len(b_acc.punch_rows) : b_acc.punch_rows[i].pair_key \in complete
                /\ EligibleKeys \subseteq complete
                /\ Len(b_acc.error_blocks) <= n
                /\ Len(b_acc.punch_rows) <= n
                /\ Len(b_acc.eligible_pairs) <= n

C12_Witness ==
    /\ b_pc = "done"
    /\ \E i \in 1..Len(b_paths) : b_paths[i] = StemLone /\ b_fs[StemLone] = DocFail
    /\ InputKeys("A") # InputPairs
    /\ b_acc.stats.pairs_checked = NumPairs
    /\ b_acc.stats.high_loss_pairs = 0
    /\ b_acc.punch_rows = <<>>

\* C13: every batch reaches the end of the analysis loop and of the merge
\* loop (or skips the merge), whatever load errors, compare errors and write
\* conflicts occur, and then holds the statistics of all its pairs.
C13_BatchCompletes ==
    <>(/\ b_pc = "done"
       /\ b_acc.stats.pairs_checked = Cardinality(CompleteKeys)
       /\ b_acc.stats.eligible_pairs = Len(b_acc.eligible_pairs)
       /\ b_merge_var => b_mg.merged + b_mg.write_errors = Len(b_acc.eligible_pairs))

C13_Witness ==
    /\ b_pc = "done"
    /\ \E r \in Reports : r.raised /\ r.err = "load error"
    /\ b_mg.write_errors = 1 /\ b_mg.merged = 0
    /\ b_mg.merge_write_errors[1].err = "Output already exists"
    /\ b_acc.stats.pairs_checked = NumPairs

\* the iterations of the merge loop that found their target in the folder
Conflicts ==
    {i \in 1..Len(b_mg.log) : ~b_mg.log[i].merged /\ b_mg.log[i].err = "Output already exists"}
TargetOf(key) == BuildMergedOpmFilename(b_pairs[key]["A"], b_pairs[key]["Z"])

\* C14: no step of a run changes or removes a file of its output folder; a
\* pair whose target exists gets a write error with its message and no merged
\* message; the loop has one iteration for every eligible pair, and every
\* iteration is a merge or a write error.
C14_WriteConflict ==
    /\ [][b_run' = b_run =>
            \A n \in DOMAIN b_mg.outdir :
                n \in DOMAIN b_mg.outdir' /\ b_mg.outdir'[n] = b_mg.outdir[n]]_vars
    /\ [](\A i \in Conflicts :
            /\ TargetOf(b_mg.log[i].pair_key) \in DOMAIN b_mg.outdir
            /\ \E j \in 1..Len(b_mg.merge_write_errors) :
                    b_mg.merge_write_errors[j] =
                        [pair_key |-> b_mg.log[i].pair_key, err |-> "Output already exists"]
            /\ \A j \in 1..Len(b_mg.merged_msgs) :
                    b_mg.merged_msgs[j].pair_key # b_mg.log[i].pair_key)
    /\ []((b_pc = "done" /\ b_merge_var) =>
            /\ Len(b_mg.log) = Len(b_acc.eligible_pairs)
            /\ \A i \in 1..Len(b_mg.log) : b_mg.log[i].pair_key = b_acc.eligible_pairs[i][1]
            /\ b_mg.write_errors = Len(b_mg.merge_write_errors)
            /\ b_mg.merged = Len(b_mg.merged_msgs)
            /\ b_mg.merged = Cardinality({i \in 1..Len(b_mg.log) : b_mg.log[i].merged})
            /\ b_mg.merged + b_mg.write_errors = Len(b_mg.log))

C14_Witness ==
    /\ b_pc = "done"
    /\ Conflicts = {1} /\ Len(b_mg.log) = NumPairs
    /\ b_mg.log[NumPairs].merged
    /\ b_mg.write_errors = 1 /\ b_mg.merged = NumPairs - 1
    /\ b_mg.outdir[TargetOf(b_mg.log[1].pair_key)] = DocOk
    /\ TargetOf(b_mg.log[NumPairs].pair_key) \in DOMAIN b_mg.outdir

\* the second run on the same files has returned
SecondDone == b_run = 2 /\ b_pc = "done"
Results(acc) ==
    [stats |-> acc.stats, eligible_pairs |-> acc.eligible_pairs,
     error_blocks |-> acc.error_blocks, punch_rows |-> acc.punch_rows]
Ascending(q) == \A i \in 1..Len(q) : \A j \in 1..Len(q) : i < j => StrLess(q[i], q[j])
InKeyOrder(acc) ==
    /\ Ascending([i \in 1..Len(acc.eligible_pairs) |-> acc.eligible_pairs[i][1]])
    /\ Ascending([i \in 1..Len(acc.error_blocks) |-> acc.error_blocks[i].key])
    /\ Ascending([i \in 1..Len(acc.punch_rows) |-> acc.punch_rows[i].pair_key])
\* two identifiers of the collection give the same pair key and the same side
SharedSide(paths) ==
    \E i \in 1..Len(paths) : \E j \in 1..Len(paths) :
        /\ i < j
        /\ ExtractAzPairKey(paths[i])[1] # Null
        /\ ExtractAzPairKey(paths[i]) = ExtractAzPairKey(paths[j])

\* C15 as stated: the same files listed in another order give the same
\* statistics, eligible list, error blocks and punch rows, each in ascending
\* key order.
C15_Original ==
    SecondDone => Results(b_acc) = Results(b_first.acc) /\ InKeyOrder(b_acc)

\* C15: when no two identifiers of the collection share a pair key and a
\* side, the same files listed in another order give the same statistics,
\* eligible list, error blocks and punch rows; in every run each of them is
\* in ascending key order.
C15_ReproducibleOrder ==
    /\ AnalysisDone => InKeyOrder(b_acc)
    /\ (SecondDone /\ ~SharedSide(b_paths)) => Results(b_acc) = Results(b_first.acc)

C15_Witness ==
    /\ SecondDone
    /\ ~SharedSide(b_paths)
    /\ b_paths = Reverse(b_first.paths)
    /\ b_paths # b_first.paths
    /\ Len(b_acc.punch_rows) >= 2
    /\ Len(b_acc.error_blocks) + Len(b_acc.eligible_pairs) >= 1
    /\ Results(b_acc) = Results(b_first.acc)

\* the second run lists the files in the order of the first
SameOrder == b_paths = b_first.paths

\* C16 as stated: a second run on the same documents with the same tolerance
\* returns the same flags, deltas, eligibility and counts and writes the same
\* merged documents as the first.
C16_Original ==
    (SecondDone /\ SameOrder) =>
        /\ b_acc = b_first.acc
        /\ b_mg.merged = b_first.mg.merged
        /\ b_mg.write_errors = b_first.mg.write_errors
        /\ b_mg.merged_msgs = b_first.mg.merged_msgs

\* C16: a second run on the same documents with the same tolerance returns
\* the same reports (flags, deltas), statistics, eligible list, error blocks
\* and punch rows as the first. Started on an output folder as the first run
\* found it, the merge returns the same counts and messages and leaves the
\* same folder; started on the folder the first run left, it changes no
\* file, merges nothing and counts every eligible pair as a write error.
C16_Idempotent ==
    (SecondDone /\ SameOrder) =>
        /\ b_acc = b_first.acc
        /\ b_first.start = b_first.outdir => b_mg = b_first.mg
        /\ b_first.start = b_first.mg.outdir =>
                /\ b_mg.outdir = b_first.mg.outdir
                /\ b_mg.merged_msgs = <<>>
                /\ b_mg.merged = 0
                /\ b_mg.write_errors = b_first.mg.merged + b_first.mg.write_errors

C16_Witness ==
    /\ SecondDone
    /\ SameOrder
    /\ b_first.start = b_first.mg.outdir
    /\ b_first.mg.merged >= 1
    /\ b_first.mg.write_errors >= 1
    /\ b_mg.merged = 0
    /\ b_mg.write_errors = Len(b_acc.eligible_pairs)
    /\ Len(b_acc.punch_rows) >= 1
    /\ b_acc = b_first.acc

PunchRowsOf(key) == {i \in 1..Len(b_acc.punch_rows) : b_acc.punch_rows[i].pair_key = key}
LabelParts(row) == {row.issue_type[i] : i \in 1..Len(row.issue_type)}
Clauses(row) == {row.details[i].clause : i \in 1..Len(row.details)}
ActiveClauses(r) ==
    (IF r.high_loss THEN {"High Loss (Status=Fail)"} ELSE {})
    \cup (IF r.polarity_issue THEN {"Polarity issue"} ELSE {})
    \cup (IF r.wavelength_mismatch THEN {"Wavelength mismatch"} ELSE {})
    \cup (IF r.length_issue THEN {"Length missing/mismatch"} ELSE {})

\* C17: a pair compared without an exception has one punch row when
\* merge_blocker or high_loss holds and none otherwise; the row's label has
\* MISMATCH exactly when merge_blocker holds and FAILURE exactly when
\* high_loss holds, and its details are one clause for each active flag of
\* high loss, polarity issue, wavelength mismatch and length issue.
C17_PunchRows ==
    AnalysisDone =>
        \A r \in Flags :
            /\ Cardinality(PunchRowsOf(r.key)) = IF r.has_merge_blocker \/ r.high_loss THEN 1 ELSE 0
            /\ \A i \in PunchRowsOf(r.key) :
                    LET row == b_acc.punch_rows[i]
                    IN  /\ "MISMATCH" \in LabelParts(row) <=> r.has_merge_blocker
                        /\ "FAILURE" \in LabelParts(row) <=> r.high_loss
                        /\ LabelParts(row) \subseteq {"MISMATCH", "FAILURE"}
                        /\ Clauses(row) = ActiveClauses(r)
                        /\ Len(row.details) = Cardinality(ActiveClauses(r))

C17_Witness ==
    /\ AnalysisDone
    /\ \E r \in Flags :
            /\ r.has_merge_blocker /\ r.high_loss
            /\ \E i \in PunchRowsOf(r.key) :
                    /\ b_acc.punch_rows[i].issue_type = <<"MISMATCH", "FAILURE">>
                    /\ Len(b_acc.punch_rows[i].details) >= 2
    /\ \E r \in Flags : ~r.has_merge_blocker /\ ~r.high_loss /\ PunchRowsOf(r.key) = {}

\* C18: the accessors return for every document, a document that is no
\* mapping included: the wavelength accessor returns for every document that
\* was loaded, and the only exception the comparison of a pair meets is a
\* load error.
C18_ExceptionFree ==
    /\ \A st \in DOMAIN b_fs : b_fs[st] # LoadError => ~GetWavelengthsNm(b_fs[st]).raised
    /\ \A r \in Reports : r.raised => r.err = "load error"

----------------------------------------------------------------------------
(* Properties of map_pxm_json_to_opm *)

MapEnded == p_pc \in {"returned", "raised"}
\* the source has no 'brief' section, or brief lacks a field of OPM_FIELD_ORDER
LacksRequired(src) ==
    \/ "brief" \notin DOMAIN src.v
    \/ ~IsDict(src.v["brief"])
    \/ \E f \in FieldSet : f \notin DOMAIN src.v["brief"].v
\* the value returned has the fields of OPM_FIELD_ORDER as its keys, in that order
ExactFields(out) ==
    /\ out # Null
    /\ out.order = OPM_FIELD_ORDER
    /\ DOMAIN out.v = FieldSet

\* C19 as stated: the call ends with ValueError, or with a mapping whose keys
\* are the 11 fields in order.
C19_Original ==
    MapEnded =>
        \/ p_pc = "raised" /\ p_exc = "ValueError"
        \/ p_pc = "returned" /\ ExactFields(p_out)

\* C19: for a source that is a mapping, the call raises ValueError when the
\* source has no 'brief' section or brief lacks one of the 11 fields, and
\* otherwise returns a mapping whose keys are the 11 fields in the order of
\* OPM_FIELD_ORDER; nothing is returned when it raises. For a source that
\* is no mapping the call raises ValueError or TypeError and returns nothing.
C19_AllOrNothing ==
    /\ p_pc # "returned" => p_out = Null
    /\ MapEnded =>
        /\ IsDict(p_src) =>
                /\ LacksRequired(p_src) <=> p_pc = "raised"
                /\ p_pc = "raised" => p_exc = "ValueError"
                /\ p_pc = "returned" => ExactFields(p_out)
        /\ ~IsDict(p_src) => p_pc = "raised" /\ p_exc \in {"ValueError", "TypeError"}

C19_Witness ==
    /\ p_pc = "returned"
    /\ "Extra" \in DOMAIN p_src.v["brief"].v
    /\ "full" \in DOMAIN p_src.v
    /\ "Geolocation" \in DOMAIN p_src.v["brief"].v["Identification"].v
    /\ ExactFields(p_out)
    /\ "Geolocation" \notin DOMAIN p_out.v["Identification"].v

----------------------------------------------------------------------------
(* Properties of the polarity comparison *)

\* the PolarityType of the actual connectors as the document holds it
RawActualPolarity(doc) ==
    Get(Get(Get(GetOpmRoot(doc), "Connectors"), "ActualConnectors"), "PolarityType")
UpperCase(c) ==
    CASE c = "m" -> "M" [] c = "p" -> "P" [] c = "o" -> "O" [] c = "b" -> "B"
      [] c = "a" -> "A" [] OTHER -> c
RECURSIVE Squeeze(_)
\* runs of spaces made one space
Squeeze(q) ==
    IF Len(q) < 2 THEN q
    ELSE IF q[1] = " " /\ q[2] = " " THEN Squeeze(Tail(q))
    ELSE <<q[1]>> \o Squeeze(Tail(q))
\* two strings that differ in letter case and in the number of spaces
\* between tokens at most
SameUpToCaseAndSpaces(x, y) ==
    Squeeze([i \in 1..Len(x) |-> UpperCase(x[i])]) = Squeeze([i \in 1..Len(y) |-> UpperCase(y[i])])

\* C20: a pair whose actual polarity strings differ only in letter case or
\* in the number of spaces between tokens is compared without a polarity
\* mismatch.
C20_PolarityNormalization ==
    AnalysisDone =>
        \A r \in Flags :
            LET pa == RawActualPolarity(ADocOf(r.key))
                pz == RawActualPolarity(ZDocOf(r.key))
            IN  (IsStr(pa) /\ IsStr(pz) /\ SameUpToCaseAndSpaces(pa.v, pz.v))
                    => ~r.polarity_mismatch

(* Properties of the wavelength encodings *)

\* the whole-nanometre value a Wavelength entry stands for: the int() of a
\* number, the decimal value of a string of digits
IsNumericString(w) == IsStr(w) /\ w.v # <<>> /\ \A i \in 1..Len(w.v) : w.v[i] \in Digits
EncodedNm(doc) ==
    {IF IsNum(Get(RowsOf(doc)[i], "Wavelength"))
     THEN PyInt(Get(RowsOf(doc)[i], "Wavelength").v)
     ELSE IntOfChars(Get(RowsOf(doc)[i], "Wavelength").v) :
        i \in {j \in 1..Len(RowsOf(doc)) :
                    \/ IsNum(Get(RowsOf(doc)[j], "Wavelength"))
                    \/ IsNumericString(Get(RowsOf(doc)[j], "Wavelength"))}}
HasStringWavelength(doc) ==
    \E i \in 1..Len(RowsOf(doc)) : IsNumericString(Get(RowsOf(doc)[i], "Wavelength"))

\* C21: a wavelength written as a numeric string counts like the number, so
\* two documents with the same wavelengths, one of them using strings, get
\* wavelength_mismatch = false.
C21_BothEncodings ==
    \A r \in Flags :
        (/\ IsDict(ADocOf(r.key)) /\ IsDict(ZDocOf(r.key))
         /\ HasStringWavelength(ADocOf(r.key)) \/ HasStringWavelength(ZDocOf(r.key))
         /\ EncodedNm(ADocOf(r.key)) = EncodedNm(ZDocOf(r.key)))
            => ~r.wavelength_mismatch

(* Properties of the high-loss flag *)

\* a "Fail" at one of the places of the flag, the result fields taken where
\* the schema of the document has them
FailAnywhere(doc) ==
    \/ Get(doc, "GlobalVerdict") = Fail
    \/ Get(GetOpmRoot(doc), "Status") = Fail
    \/ \E i \in 1..Len(RowsOf(doc)) :
            /\ IsDict(RowsOf(doc)[i])
            /\ \/ Get(RowsOf(doc)[i], "Status") = Fail
               \/ Get(RowsOf(doc)[i], "Verdict") = Fail
               \/ HasFailReading(RowsOf(doc)[i])
Rooted(doc) == IsDict(doc) /\ GetOpmRoot(doc) = doc

\* C22: in either schema the high-loss flag of a document is true exactly
\* when the document verdict, the results status, a measurement's status or
\* verdict, or a reading's status is "Fail".
C22_HighLossBothSchemas ==
    \A r \in Flags :
        /\ IsDict(ADocOf(r.key)) => (r.a_high_loss <=> FailAnywhere(ADocOf(r.key)))
        /\ IsDict(ZDocOf(r.key)) => (r.z_high_loss <=> FailAnywhere(ZDocOf(r.key)))

\* the same restricted to the documents in the nested schema
C22_NestedOnly ==
    \A r \in Flags :
        (IsDict(ADocOf(r.key)) /\ ~Rooted(ADocOf(r.key)))
            => (r.a_high_loss <=> FailAnywhere(ADocOf(r.key)))

(* Properties of the fiber-length selection *)

\* the candidate locations of a document in the order of the search: every
\* row of the results measurements, the results, every row of the
\* measurements of OpticalData, the document; at each the value under
\* FiberLength.LengthInfo.Length, or NoKey where the key is not there
NoKey == [t |-> "nokey"]
LengthAtPlace(x) ==
    IF IsDict(x) /\ IsDict(Get(x, "FiberLength"))
        /\ IsDict(Get(Get(x, "FiberLength"), "LengthInfo"))
        /\ Has(Get(Get(x, "FiberLength"), "LengthInfo"), "Length")
    THEN Get(Get(Get(x, "FiberLength"), "LengthInfo"), "Length")
    ELSE NoKey
PlacesOfRows(x) ==
    IF IsDict(x) /\ IsList(Get(x, "Measurements"))
    THEN [i \in 1..Len(Get(x, "Measurements").v) |-> LengthAtPlace(Get(x, "Measurements").v[i])]
    ELSE <<>>
Candidates(doc) ==
    LET res == IF IsDict(Get(doc, "Measurement"))
               THEN Get(Get(doc, "Measurement"), "OpmResultData") ELSE Null
    IN  PlacesOfRows(res) \o <<LengthAtPlace(res)>>
        \o PlacesOfRows(Get(doc, "OpticalData")) \o <<LengthAtPlace(doc)>>
Deciding(doc) == LET c == Candidates(doc) IN {i \in 1..Len(c) : c[i] # NoKey}
FirstDeciding(doc) ==
    LET c == Candidates(doc) IN c[FirstOf({i \in 1..Len(c) : c[i] # NoKey})]
IsNumeric(val) == IsNum(val) \/ (IsStr(val) /\ IsFloatChars(val.v))

\* C23: the first candidate location that holds the Length key decides: a
\* null or non-numeric value there gives (None, missing), a number there
\* gives (number, not missing), whatever the later locations hold; without
\* any key the length is missing; the result is (number, false) or
\* (None, true).
C23_FirstPresentWins ==
    \A r \in Flags :
        IsDict(ADocOf(r.key)) =>
            LET c == Candidates(ADocOf(r.key))
                deciding == {i \in 1..Len(c) : c[i] # NoKey}
                first == c[FirstOf(deciding)]
            IN  /\ \/ IsNum(r.a_len) /\ ~r.a_missing
                   \/ IsNone(r.a_len) /\ r.a_missing
                /\ deciding = {} => r.a_missing
                /\ deciding # {} =>
                        IF IsNumeric(first)
                        THEN r.a_len = Num(FloatOf(first)) /\ ~r.a_missing
                        ELSE IsNone(r.a_len) /\ r.a_missing

\* a null in the first row decides although the second row, the results,
\* OpticalData and the document hold a number; and a number at the results
\* decides when no row holds the key
C23_Witness ==
    /\ AnalysisDone
    /\ \E r \in Flags :
            /\ Len(Candidates(ADocOf(r.key))) = 5
            /\ Candidates(ADocOf(r.key))[1] = Null
            /\ \A i \in 2..5 : IsNum(Candidates(ADocOf(r.key))[i])
            /\ IsNone(r.a_len) /\ r.a_missing /\ r.length_issue

(* Properties of the length comparison *)

\* the length of a document is absent or null
LengthAbsentOrNull(doc) ==
    /\ IsDict(doc)
    /\ LET c == Candidates(doc)
           deciding == {i \in 1..Len(c) : c[i] # NoKey}
       IN  deciding = {} \/ IsNone(c[FirstOf(deciding)])

\* C24: a pair with the length of a side missing (absent or null) has no
\* length_delta, no length_mismatch, a length_issue, a merge blocker, and
\* is not eligible, with every tolerance.
C24_MissingLengthBlocks ==
    \A r \in Flags :
        /\ r.length_missing <=> (r.a_missing \/ r.z_missing)
        /\ (LengthAbsentOrNull(ADocOf(r.key)) \/ LengthAbsentOrNull(ZDocOf(r.key)))
                => r.length_missing
        /\ r.length_missing =>
                /\ r.length_delta = Null
                /\ ~r.length_mismatch
                /\ r.length_issue
                /\ r.has_merge_blocker
                /\ r.key \notin EligibleKeys

\* a null length on A against a number on Z, nothing else wrong, with a
\* tolerance text that is no number, and the pair is not eligible
C24_Witness ==
    /\ AnalysisDone
    /\ b_text = Str(<<"a", "b", "c">>)
    /\ \E r \in Flags :
            /\ ADocOf(r.key) = MkDoc(Pass, MPO_B, Absent, BothWl, Null, Absent)
            /\ ZDocOf(r.key) = MkDoc(Pass, MPO_B, Absent, BothWl, Num(1000), Absent)
            /\ r.a_missing /\ ~r.z_missing /\ r.z_len = Num(1000)
            /\ ~r.polarity_issue /\ ~r.wavelength_mismatch /\ ~r.high_loss
            /\ r.length_issue /\ r.length_delta = Null
            /\ r.key \notin EligibleKeys
            /\ b_acc.stats.length_issue_pairs = 1 /\ b_acc.stats.mismatched_pairs = 1

(* Properties of the degenerate merge *)

\* the measurement sequence of a document is empty or absent at
\* Measurement.OpmResultData.Measurements
NoCanonicalMeasurements(doc) ==
    LET m == IF IsDict(doc) THEN Get(doc, "Measurement") ELSE Null
        od == IF IsDict(m) THEN Get(m, "OpmResultData") ELSE Null
        meas == IF IsDict(od) THEN Get(od, "Measurements") ELSE Null
    IN  ~IsList(meas) \/ meas.v = <<>>

\* C25: when A or Z has no measurement at the canonical location,
\* _merge_opm_docs returns a document equal to A, measurements and verdicts
\* as in A.
C25_DegenerateMerge ==
    (m_pc # "start" /\ (NoCanonicalMeasurements(m_a0) \/ NoCanonicalMeasurements(m_z0)))
        => (m_pc = "returned" /\ m_out = m_a0)

\* A has a measurement and passes, Z has an empty list and the verdict Fail
\* at both levels, and the result is A
C25_Witness ==
    /\ m_pc = "returned"
    /\ m_a0 = MkOpmDoc(Pass, Pass, MeasOf(<<Chars(1)>>, Nm1310))
    /\ m_z0 = MkOpmDoc(Fail, Fail, List(<<>>))
    /\ m_out = m_a0 /\ TopVerdict(m_out) = Pass

(* Properties of the mapper's normalization *)

Dropped == {"Geolocation", "GeolocationDetails", "company", "customer"}
Renamed == {<<"CompanyName", "company">>, <<"CustomerName", "customer">>}

\* C26: in the result of map_pxm_json_to_opm every field but Identification
\* is the value in brief; Identification has none of Geolocation,
\* GeolocationDetails, company, customer; CompanyName and CustomerName keep
\* their value when brief has them and otherwise take the value of company
\* and customer; every other key of Identification is as in brief; and the
\* source holds what it held before the call.
C26_MapperNormalization ==
    p_pc = "returned" =>
        LET brief0 == p_src0.v["brief"].v
            out == p_out.v
            id0 == brief0["Identification"]
            id == out["Identification"]
        IN  /\ \A f \in (DOMAIN out) \ {"Identification"} : out[f] = brief0[f]
            /\ IsDict(id) /\ (DOMAIN id.v) \cap Dropped = {}
            /\ IsDict(id0) =>
                    /\ \A pr \in Renamed :
                            IF Has(id0, pr[1]) THEN Get(id, pr[1]) = Get(id0, pr[1])
                            ELSE IF Has(id0, pr[2])
                            THEN Has(id, pr[1]) /\ Get(id, pr[1]) = Get(id0, pr[2])
                            ELSE ~Has(id, pr[1])
                    /\ \A k \in (DOMAIN id0.v) \ (Dropped \cup {"CompanyName", "CustomerName"}) :
                            Has(id, k) /\ Get(id, k) = Get(id0, k)
                    /\ DOMAIN id.v \subseteq (DOMAIN id0.v) \cup {"CompanyName", "CustomerName"}
            /\ ~IsDict(id0) => id = EmptyDict
            /\ p_src = p_src0

\* an Identification with CompanyName, company and customer: CompanyName
\* kept, CustomerName taken from customer, the lowercase keys gone, and the
\* source still with them
C26_Witness ==
    /\ p_pc = "returned"
    /\ Get(p_out.v["Identification"], "CompanyName") = Str(<<"N">>)
    /\ Get(p_out.v["Identification"], "CustomerName") = Str(<<"u">>)
    /\ DOMAIN p_out.v["Identification"].v = {"CompanyName", "CustomerName"}
    /\ DOMAIN p_src.v["brief"].v["Identification"].v = {"CompanyName", "company", "customer"}
    /\ p_out.v["GlobalVerdict"] = Str(<<"v">>)

(* Properties of the pairing *)

\* the identifiers read so far, and among them the positions of those that
\* give a pair key and a side
ReadSoFar == IF b_pc = "pairing" THEN b_i - 1 ELSE Len(b_paths)
PositionsOf(key, side) ==
    {i \in 1..ReadSoFar : ExtractAzPairKey(b_paths[i]) = <<Str(key), Str(<<side>>)>>}
LastOf(key, side) == b_paths[MaxOf(PositionsOf(key, side))]
DocsOf(key) ==
    {b_acc.punch_pair_docs[i] :
        i \in {j \in 1..Len(b_acc.punch_pair_docs) : b_acc.punch_pair_docs[j].pair_key = key}}

\* C27: after every insertion each pair key holds for each side one
\* identifier, the last in input order that gives this key and side; the
\* documents compared are the documents of these identifiers; an earlier
\* identifier of the same key and side adds no pair, no report, no error
\* block and no count.
C27_LastOnePerSide ==
    LET got == {<<i, ExtractAzPairKey(b_paths[i])>> : i \in 1..ReadSoFar}
        at(k, sd) == {g[1] : g \in {h \in got : h[2] = <<Str(k), Str(<<sd>>)>>}}
        last(k, sd) == b_paths[MaxOf(at(k, sd))]
        both == {k \in DOMAIN b_pairs : at(k, "A") # {} /\ at(k, "Z") # {}}
    IN  /\ \A k \in DOMAIN b_pairs : \A sd \in {"A", "Z"} :
                IF at(k, sd) = {} THEN sd \notin DOMAIN b_pairs[k]
                ELSE sd \in DOMAIN b_pairs[k] /\ b_pairs[k][sd] = last(k, sd)
        /\ \A g \in got :
                g[2][2] \in {Str(<<"A">>), Str(<<"Z">>)} => g[2][1].v \in DOMAIN b_pairs
        /\ AnalysisDone =>
                /\ b_acc.stats.pairs_checked = Cardinality(both)
                /\ Len(b_acc.reports) = Cardinality(both)
                /\ Len(b_acc.error_blocks) <= Cardinality(both)
                /\ \A k \in both : \A d \in DocsOf(k) :
                        d.A_doc = b_fs[last(k, "A")] /\ d.Z_doc = b_fs[last(k, "Z")]
                /\ \A i \in 1..Len(b_acc.eligible_pairs) :
                        LET e == b_acc.eligible_pairs[i]
                        IN  e[2] = last(e[1], "A") /\ e[3] = last(e[1], "Z")

\* two A identifiers of the first pair, the clean one first: the second one
\* is paired, its failing document is compared, and the counts are those of
\* NumPairs pairs
C27_Witness ==
    /\ b_pc = "done" /\ b_run = 1
    /\ PositionsOf(ExtractAzPairKey(StemDup)[1].v, "A") = {1, 2 * NumPairs + 1}
    /\ b_paths[1] = StemA(1) /\ b_fs[StemA(1)] = DocOk /\ b_fs[StemDup] = DocFail
    /\ b_pairs[ExtractAzPairKey(StemDup)[1].v]["A"] = StemDup
    /\ \E r \in Flags :
            r.key = ExtractAzPairKey(StemDup)[1].v /\ r.a_high_loss /\ ~r.z_high_loss
    /\ b_acc.stats.pairs_checked = NumPairs
    /\ Len(b_acc.error_blocks) <= NumPairs

(* Properties of the terminal states of a pair *)

\* the keys counted as mismatched: a merge blocker or a compare error
BlockedKeys == {r.key : r \in {q \in Reports : q.raised \/ q.has_merge_blocker}}
EligibleList == [i \in 1..Len(b_acc.eligible_pairs) |-> b_acc.eligible_pairs[i][1]]

\* C28: after the analysis loop pairs_checked = eligible_pairs +
\* mismatched_pairs; every checked pair is either once in the eligible list
\* or counted once as mismatched, never both.
C28_OneTerminalState ==
    /\ b_pc = "analyzing" =>
            b_acc.stats.pairs_checked
                = Len(b_acc.eligible_pairs) + b_acc.stats.mismatched_pairs
    /\ AnalysisDone =>
            /\ b_acc.stats.pairs_checked
                    = b_acc.stats.eligible_pairs + b_acc.stats.mismatched_pairs
            /\ b_acc.stats.eligible_pairs = Len(b_acc.eligible_pairs)
            /\ Distinct(EligibleList)
            /\ b_acc.stats.mismatched_pairs = Cardinality(BlockedKeys)
            /\ EligibleKeys \cap BlockedKeys = {}
            /\ EligibleKeys \cup BlockedKeys = InputPairs
            /\ Distinct([i \in 1..Len(b_acc.reports) |-> b_acc.reports[i].key])

\* a batch with a pair that is eligible with high loss and a pair that is a
\* compare error
C28_Witness ==
    /\ AnalysisDone
    /\ b_acc.stats.pairs_checked = NumPairs
    /\ b_acc.stats.eligible_pairs >= 1 /\ b_acc.stats.mismatched_pairs >= 1
    /\ \E r \in Flags : r.high_loss /\ r.key \in EligibleKeys
    /\ \E r \in Reports : r.raised /\ r.key \in BlockedKeys

(* Properties of the merge accounting *)

\* the output folder at the start of the current run, and the pairs the
\* merge loop has been through
FolderAtStart == IF b_run = 1 THEN b_first.outdir ELSE b_first.start
Attempted == [i \in 1..Len(b_mg.log) |-> b_mg.log[i].pair_key]
Written == {g.out_name : g \in Merges}

\* C29: with merging enabled the merge loop attempts every eligible pair
\* once, in the order of the eligible list, and merged + write_errors is the
\* number of pairs attempted, at the end the number of eligible pairs; the
\* files of the folder are those it had plus one per merged pair. With
\* merging disabled nothing is attempted or written and merged =
\* write_errors = 0.
C29_MergeAccounting ==
    /\ b_mg.merged + b_mg.write_errors = Len(b_mg.log)
    /\ b_mg.merged = Cardinality(Written)
    /\ DOMAIN b_mg.outdir = (DOMAIN FolderAtStart) \cup Written
    /\ b_pc = "merging" =>
            /\ b_merge_var
            /\ Attempted = SubSeq(EligibleList, 1, b_i - 1)
    /\ (b_pc = "done" /\ b_merge_var) =>
            /\ Attempted = EligibleList
            /\ b_mg.merged + b_mg.write_errors = Len(b_acc.eligible_pairs)
    /\ ~b_merge_var =>
            /\ b_mg.merged = 0 /\ b_mg.write_errors = 0
            /\ b_mg.log = <<>>
            /\ b_mg.outdir = FolderAtStart
    /\ b_pc \in {"pairing", "analyzing", "analyzed"} => b_mg.log = <<>>

\* NumPairs eligible pairs, the target of the first one already in the
\* folder: one write error, the others merged
C29_Witness ==
    /\ b_pc = "done" /\ b_merge_var /\ b_run = 1
    /\ Len(b_acc.eligible_pairs) = NumPairs
    /\ b_mg.write_errors = 1 /\ b_mg.merged = NumPairs - 1
    /\ Attempted = EligibleList
    /\ ~b_mg.log[1].merged

(* Properties of the statistics *)

ClauseOfCounter ==
    [high_loss_pairs |-> "High Loss (Status=Fail)",
     polarity_issue_pairs |-> "Polarity issue",
     wavelength_mismatches |-> "Wavelength mismatch",
     length_issue_pairs |-> "Length missing/mismatch"]
RowsWith(clause) ==
    {i \in 1..Len(b_acc.punch_rows) : clause \in Clauses(b_acc.punch_rows[i])}

\* C30: after the analysis loop each of high_loss_pairs,
\* polarity_issue_pairs, wavelength_mismatches and length_issue_pairs is the
\* number of punch rows with its detail clause and at most pairs_checked,
\* and a checked pair has at most one punch row; so a compare error, whose
\* row has none of the clauses, adds to none of them.
C30_StatsAgreeWithRows ==
    AnalysisDone =>
        /\ \A c \in DOMAIN ClauseOfCounter :
                /\ b_acc.stats[c] = Cardinality(RowsWith(ClauseOfCounter[c]))
                /\ b_acc.stats[c] <= b_acc.stats.pairs_checked
        /\ \A k \in InputPairs : Cardinality(PunchRowsOf(k)) <= 1

\* the same without the pairs that ended in a compare error after their
\* documents were loaded
C30_WithoutLateErrors ==
    (AnalysisDone /\ \A r \in Reports : r.raised => DocsOf(r.key) = {}) =>
        /\ \A c \in DOMAIN ClauseOfCounter :
                /\ b_acc.stats[c] = Cardinality(RowsWith(ClauseOfCounter[c]))
                /\ b_acc.stats[c] <= b_acc.stats.pairs_checked
        /\ \A k \in InputPairs : Cardinality(PunchRowsOf(k)) <= 1

====
